---- MODULE Spec2Model ----
(***************************************************************************)
(* PRolice: the pull-request retrieval orchestrator (Analyzer), the        *)
(* repository resolver (AnalyzerBuilder) and the connection pool they      *)
(* share, as state machines.                                               *)
(*                                                                         *)
(* Spec         the program as built: GitHubConnectionPool::new(manager,   *)
(*              size) configures no timeout, so pool.get() suspends until  *)
(*              a connection is free.                                      *)
(* SpecTimeout  the same program when pool.get() may also return an error  *)
(*              (the branch get_github_client answers with panic!).        *)
(* SpecResolve  AnalyzerBuilder::init over the answers the remote can give.*)
(* SpecReview   the Deserialize implementation of ReviewState over texts.  *)
(* SpecScore    PullRequestData::get_score over bundles.                   *)
(* SpecRepo     the repository score over the bundles main collected.      *)
(* SpecFair     Spec under the scheduling of the tokio runtime.            *)
(* SpecTrace    the prolice_trace_time attribute over function bodies.     *)
(* SpecMain     main, from the retrieved outcomes to the printed score.    *)
(*                                                                         *)
(* Spec and SpecTimeout start from a resolved repository and end when the  *)
(* entry operation has returned and the spawned tasks have finished.       *)
(***************************************************************************)
EXTENDS Integers, Sequences, FiniteSets, TLC

\* ------------------------------------------------------------------ bounds
\* Pull requests the remote repository holds at most.
MaxPRs == 2
\* Largest --sample-size explored (the CLI accepts 1..100).
MaxSample == 2
\* Connections of the pool (DEFAULT_CONNECTION_POOL_SIZE, scaled down: one PR
\* with its entry operation needs 6, two PRs need 11).
PoolSize == 6
\* Sub-fetch responses other than the nominal one, over a whole run.
MaxFaults == 1
\* Longest repository name, in characters.
MaxNameLen == 1
\* Most repositories a listing or a search answers with.
MaxListLen == 2
\* Leading characters of a review-state text whose case is varied.
MaxCasePos == 3
\* Files of a diff, hunks of a file, lines a hunk adds or removes, at most.
MaxFiles == 2
MaxHunks == 2
MaxLines == 1
\* Comments of one kind (issue comments, reviews, commit comments) on a PR.
MaxComments == 2
\* Commits of a PR.
MaxCommits == 2
\* Timestamps are counted in ticks, TicksPerDay to the calendar day, from 0 to MaxTick.
TicksPerDay == 2
MaxTick == 3
\* Bundles that reach the repository score.
MaxIncluded == 2
\* Longest input string of the traced functions, in characters.
MaxInputLen == 3
\* Pull requests whose retrieval outcome reaches main.
MaxOutcomes == 2

\* --------------------------------------------------------------- constants
\* The five tasks retrieve_pr_data_from spawns, in spawn and try_join! order.
FETCHES == <<"comments", "commit_comments", "reviews", "diff", "commits">>
NumFetches == 5
Fetch == 1..NumFetches
RepoName == "repo"
Task == 1..MaxPRs

Min(S) == CHOOSE x \in S : \A y \in S : x <= y
MinOf(a, b) == IF a <= b THEN a ELSE b

\* The number GitHub gave the PR at position pos of the repository (newest first).
PrNumberOf(pos) == 100 - pos

VARIABLES
    mode,         \* "single" (--pr-number given) or "sample"
    sample_size,  \* --sample-size
    pr_number,    \* --pr-number (0: none)
    repoPRs,      \* the remote repository's PR headers, created-descending
    mainPc,       \* position of the entry operation (retrieve_repo_data / retrieve_pr_data)
    panicAt,      \* the function whose panic unwound the main task ("none")
    available,    \* connections the pool can still hand out
    mainLease,    \* whether the entry operation holds a connection
    prs,          \* the PR headers the entry operation obtained
    taskPc,       \* position of each retrieve_pr_data_from call
    subSt,        \* subSt[i][k]: state of sub-fetch task k of PR i
    subRes,       \* subRes[i][k]: what its JoinHandle holds
    held,         \* held[i][k]: whether sub-fetch task k of PR i holds a connection
    taskResult,   \* what retrieve_pr_data_from returned for PR i
    results,      \* what the entry operation returned
    firstFailed,  \* history: the sub-fetch of PR i that failed first in time (0: none)
    finishOrder,  \* history: PR tasks in the order they ended
    faults,       \* history: non-nominal responses served so far
    repository_name,  \* AnalyzerBuilder.repository_name
    orgResponse,  \* what orgs(owner).list_repos() answers
    userResponse, \* what the user search answered ("unqueried" before it is sent)
    rPc,          \* position of AnalyzerBuilder::init
    rResult,      \* what AnalyzerBuilder::init returned
    value,        \* the text handed to ReviewState's visit_str
    deserialized, \* what visit_str returned for it
    bundle,       \* the PullRequestData handed to get_score
    pr_score,     \* what PullRequestData::get_score returned for it
    debug,        \* what get_score logged with debug! on the way
    included,     \* the Vec<&PullRequestData> main collected for the repository score
    repo_score,   \* what its get_score returned
    item,         \* the function handed to prolice_trace_time: body, asyncness, build
    dummy_input,  \* the string both functions of the macro's tests are called with
    traced,       \* what the function with the attribute did on it
    non_traced,   \* what the same function without the attribute did on it
    outcomes,     \* what the retrieval handed to main: one Result per pull request
    include_merge_prs,  \* --include-merge-prs
    exit_code     \* how main ended ("running" before it has)

vars == <<mode, sample_size, pr_number, repoPRs, mainPc, panicAt, available, mainLease, prs,
          taskPc, subSt, subRes, held, taskResult, results, firstFailed,
          finishOrder, faults, repository_name, orgResponse, userResponse, rPc, rResult,
          value, deserialized, bundle, pr_score, debug, included, repo_score,
          item, dummy_input, traced, non_traced, outcomes, include_merge_prs, exit_code>>

inputs == <<mode, sample_size, pr_number, repoPRs>>
resolver == <<repository_name, orgResponse, userResponse, rPc, rResult>>
orchestrator == <<mainPc, panicAt, available, mainLease, prs, taskPc, subSt, subRes, held,
                  taskResult, results, firstFailed, finishOrder, faults>>
scoring == <<value, deserialized, bundle, pr_score, debug, included, repo_score>>
tracing == <<item, dummy_input, traced, non_traced>>
reporting == <<outcomes, include_merge_prs, exit_code>>

\* Nothing was handed to the deserializer and the scorers.
NotDeserialized == [tag |-> "none", val |-> "none"]
NoBundle == <<>>
NotScored == [tag |-> "none", score |-> <<>>]
NoDebug == <<>>
NoItem == <<>>
NotCalled == [outcome |-> "none", value |-> 0, log |-> 0]
Untraced ==
    /\ item = NoItem
    /\ dummy_input = <<>>
    /\ traced = NotCalled
    /\ non_traced = NotCalled
Unreported ==
    /\ outcomes = <<>>
    /\ include_merge_prs = FALSE
    /\ exit_code = "running"
Unscored ==
    /\ Untraced
    /\ Unreported
    /\ value = <<>>
    /\ deserialized = NotDeserialized
    /\ bundle = NoBundle
    /\ pr_score = NotScored
    /\ debug = NoDebug
    /\ included = <<>>
    /\ repo_score = NotScored

\* ------------------------------------------------------------- the pool
\* deadpool's managed pool: max_size permits; get() takes one and the drop of the
\* connection object gives it back.
\* Mutant of get_github_client: the pool behaves as one of max_size 1, handing
\* out a connection only while none is out.
get_github_client_lone == available = PoolSize /\ available' = available - 1

\* self.get_connection_pool().get().await succeeded: one connection fewer.
get_github_client == available > 0 /\ available' = available - 1

\* Mutant of release: a dropped connection object is not given back.
release_leaking(n) == available' = available

\* A connection object is dropped n times over.
release(n) == available' = available + n

\* Connections handed out and not yet dropped.
LeasesOut ==
    (IF mainLease THEN 1 ELSE 0)
    + Cardinality({<<i, k>> \in Task \X Fetch : held[i][k]})

\* ------------------------------------------------------ results and errors
NoData == [k \in Fetch |-> "none"]
NoNested == [tag |-> "none", val |-> "none", of |-> 0]
NoResult == [kind |-> "none", repo_name |-> "none", pr_number |-> 0,
             nested |-> NoNested, data |-> NoData]
NoOutput == [tag |-> "none", val |-> "none"]
Discarded == [tag |-> "discarded", val |-> "none"]

\* AnalyzeError::PullRequestIncompleteDataError { reason, pr_number }
PullRequestIncompleteDataError(reason, n) ==
    [kind |-> "PullRequestIncompleteDataError", repo_name |-> "none", pr_number |-> n,
     nested |-> [tag |-> "reason", val |-> reason, of |-> 0], data |-> NoData]

\* AnalyzeError::PullRequestDataRetrievalError { repo_name, pr_number, nested }
PullRequestDataRetrievalError(repo, n, cause) ==
    [kind |-> "PullRequestDataRetrievalError", repo_name |-> repo, pr_number |-> n,
     nested |-> cause, data |-> NoData]

\* AnalyzeError::PullRequestNotFound { repo_name, pr_number, nested }
PullRequestNotFound(repo, n) ==
    [kind |-> "PullRequestNotFound", repo_name |-> repo, pr_number |-> n,
     nested |-> [tag |-> "octocrab::Error", val |-> "none", of |-> 0], data |-> NoData]

\* AnalyzeError::AsyncTaskError(nested): carries no repository or PR identity.
AsyncTaskError ==
    [kind |-> "AsyncTaskError", repo_name |-> "none", pr_number |-> 0,
     nested |-> [tag |-> "JoinError", val |-> "PoolError", of |-> 0], data |-> NoData]

\* PullRequestData::new(repo_name, pr.number, ..., comments, commit_comments,
\* commits, reviews, patch_set, ...): the bundle.
PullRequestData(repo, n, parts) ==
    [kind |-> "Ok", repo_name |-> repo, pr_number |-> n, nested |-> NoNested,
     data |-> parts]

Ok(v) == [tag |-> "Ok", val |-> v]
Err(e) == [tag |-> "Err", val |-> e]
Panic(e) == [tag |-> "Panic", val |-> e]

\* ------------------------------------------------- the five sub-fetches
\* What the remote endpoint can answer to a raw GET (execute + text + from_str).
RawResponses == {"transport_error", "no_content", "body_error", "bad_json",
                 "empty_array", "items"}

\* The answers each sub-fetch is explored with.
Responses(k) ==
    CASE k = 1 -> {"error", "page"}
      [] k = 4 -> {"transport_error", "bad_diff", "diff"}
      [] OTHER -> RawResponses

Nominal(k) == CASE k = 1 -> "page" [] k = 4 -> "diff" [] OTHER -> "items"

\* github_connection.issues(owner, repo).list_comments(pr).send().await
get_pr_comments(resp) ==
    IF resp = "page" THEN Ok("items") ELSE Err("octocrab::Error")

\* The shared shape of get_pr_reviews, get_pr_commit_comments and get_pr_commits:
\* execute(..).map_err(..).unwrap(), the content_length() == 0 early return,
\* text().map_err(..)?, serde_json::from_str(..).map_err(..)?.
raw_get(resp) ==
    CASE resp = "transport_error" -> Panic("GitHubAPIError")
      [] resp = "no_content" -> Ok("empty")
      [] resp = "body_error" -> Err("GitHubAPIResponseBodyError")
      [] resp = "bad_json" -> Err("JsonParseError")
      [] resp = "empty_array" -> Ok("empty")
      [] OTHER -> Ok("items")

get_pr_commit_comments(resp) == raw_get(resp)

get_pr_reviews(resp) == raw_get(resp)

\* As raw_get, then: if parsed_json.is_empty() { return Err(NoCommitsFoundError) }.
\* The content_length() == 0 return comes before the parse and its emptiness test.
get_pr_commits(resp) ==
    CASE resp = "transport_error" -> Panic("GitHubAPIError")
      [] resp = "no_content" -> Ok("empty")
      [] resp = "body_error" -> Err("GitHubAPIResponseBodyError")
      [] resp = "bad_json" -> Err("JsonParseError")
      [] resp = "empty_array" -> Err("NoCommitsFoundError")
      [] OTHER -> Ok("items")

\* pulls(owner, repo).get_diff(pr).map_err(GitHubAPIError)?, PatchSet::parse(..).map_err(DiffParseError)?
get_pr_diff(resp) ==
    CASE resp = "transport_error" -> Err("GitHubAPIError")
      [] resp = "bad_diff" -> Err("DiffParseError")
      [] OTHER -> Ok("items")

fetch_fn(k, resp) ==
    CASE k = 1 -> get_pr_comments(resp)
      [] k = 2 -> get_pr_commit_comments(resp)
      [] k = 3 -> get_pr_reviews(resp)
      [] k = 4 -> get_pr_diff(resp)
      [] OTHER -> get_pr_commits(resp)

\* async move { Analyzer::get_pr_xxx(..).await.unwrap() } seen through its
\* JoinHandle: the value, or a JoinError for the panic (of a failed unwrap, or of
\* the function itself).
task_output(k, resp) ==
    LET r == fetch_fn(k, resp)
    IN IF r.tag = "Ok" THEN r ELSE [tag |-> "JoinError", val |-> r.val]

\* -------------------------------------------------------- PR header checks
HeaderStates == [merged_at : {"None", "Some"}, closed_at : {"None", "Some"}]

Header(pos, h) == [number |-> PrNumberOf(pos), merged_at |-> h.merged_at,
                   closed_at |-> h.closed_at]

get_merged_date(pr) ==
    IF pr.merged_at = "Some" THEN Ok("date")
    ELSE Err(PullRequestIncompleteDataError("No merged date", pr.number))

\* Mutant of get_closed_date: the close timestamp is not looked at.
get_closed_date_unchecked(pr) == Ok("date")

get_closed_date(pr) ==
    IF pr.closed_at = "Some" THEN Ok("date")
    ELSE Err(PullRequestIncompleteDataError("No closed date", pr.number))

\* pulls(..).list().state(Closed).sort(Created).direction(Descending)
\*     .per_page(sample_size).page(1): the first sample_size closed PRs.
ClosedPRs == SelectSeq(repoPRs, LAMBDA h : h.closed_at = "Some")
Listing == SubSeq(ClosedPRs, 1, MinOf(sample_size, Len(ClosedPRs)))

Launched(i) == Cardinality({k \in Fetch : subSt[i][k] # "unspawned"})


\* ------------------------------------------------- AnalyzerBuilder::init
Chars == {"a", "A", "b"}
Names == UNION {[1..n -> Chars] : n \in 1..MaxNameLen}
Listings == UNION {[1..n -> Names] : n \in 0..MaxListLen}

\* The ASCII letters, position by position in both cases.
Lower == <<"a", "b", "c", "d", "e", "f", "g", "h", "i", "j", "k", "l", "m",
           "n", "o", "p", "q", "r", "s", "t", "u", "v", "w", "x", "y", "z">>
Upper == <<"A", "B", "C", "D", "E", "F", "G", "H", "I", "J", "K", "L", "M",
           "N", "O", "P", "Q", "R", "S", "T", "U", "V", "W", "X", "Y", "Z">>

\* u8::to_ascii_lowercase / to_ascii_uppercase: letters change case, every other
\* character is kept.
to_ascii_lowercase(c) ==
    IF \E n \in 1..26 : Upper[n] = c THEN Lower[CHOOSE n \in 1..26 : Upper[n] = c] ELSE c
to_ascii_uppercase(c) ==
    IF \E n \in 1..26 : Lower[n] = c THEN Upper[CHOOSE n \in 1..26 : Lower[n] = c] ELSE c

\* Mutant of eq_ignore_ascii_case: plain equality.
eq_case_sensitive(a, b) == a = b

\* str::eq_ignore_ascii_case
eq_ignore_ascii_case(a, b) ==
    /\ Len(a) = Len(b)
    /\ \A n \in 1..Len(a) : to_ascii_lowercase(a[n]) = to_ascii_lowercase(b[n])

\* items.into_iter().find(|repo| ..): the position of the first match, 0 for None.
find(S) == IF S = {} THEN 0 ELSE Min(S)

NoRepo == <<>>
Resolved(repo) == [tag |-> "Ok", val |-> "Analyzer", repo |-> repo]
Unresolved(e) == [tag |-> "Err", val |-> e, repo |-> NoRepo]
NotReturned == [tag |-> "none", val |-> "none", repo |-> NoRepo]

OrgResponses == {[tag |-> "Err", items |-> <<>>]} \cup {[tag |-> "Ok", items |-> l] : l \in Listings}

UserResponses ==
    {[kind |-> r, items |-> <<>>] : r \in RawResponses \ {"items", "empty_array"}}
    \cup {[kind |-> "items", items |-> l] : l \in Listings}

Unqueried == [kind |-> "unqueried", items |-> <<>>]

\* find_personal_repository: execute(..).map_err(..).unwrap(), the
\* content_length() == 0 return of Ok(None), text().map_err(..)?,
\* from_str(..).map_err(..)?, then find(|repo| repo.name == self.repository_name).
find_personal_repository(resp) ==
    CASE resp.kind = "transport_error" -> Panic("GitHubAPIError")
      [] resp.kind = "no_content" -> Ok(0)
      [] resp.kind = "body_error" -> Err("GitHubAPIResponseBodyError")
      [] resp.kind = "bad_json" -> Err("JsonParseError")
      [] OTHER -> Ok(find({n \in 1..Len(resp.items) : resp.items[n] = repository_name}))

\* init: let github_connection = self.get_github_client().await
ResolveAcquire ==
    /\ rPc = "start"
    /\ get_github_client
    /\ mainLease' = TRUE
    /\ rPc' = "orgs"
    /\ UNCHANGED <<inputs, tracing, reporting, scoring, repository_name, orgResponse, userResponse, rResult, mainPc,
                   panicAt, prs, taskPc, subSt, subRes, held, taskResult, results,
                   firstFailed, finishOrder, faults>>

\* init: if let Ok(repository_page) = repository_page { .. return .. }: the owner
\* is an organization; the repository is in its listing or init fails.
OrgListed ==
    /\ rPc = "orgs"
    /\ orgResponse.tag = "Ok"
    /\ LET n == find({m \in 1..Len(orgResponse.items) :
                         eq_ignore_ascii_case(orgResponse.items[m], repository_name)})
       IN rResult' = IF n # 0 THEN Resolved(orgResponse.items[n])
                     ELSE Unresolved("RepositoryNotFoundError")
    /\ rPc' = "done"
    /\ mainLease' = FALSE
    /\ release(1)
    /\ UNCHANGED <<inputs, tracing, reporting, scoring, repository_name, orgResponse, userResponse, mainPc,
                   panicAt, prs, taskPc, subSt, subRes, held, taskResult, results,
                   firstFailed, finishOrder, faults>>

\* init: the organization listing failed; on to find_personal_repository.
OrgListingFails ==
    /\ rPc = "orgs"
    /\ orgResponse.tag = "Err"
    /\ rPc' = "user"
    /\ UNCHANGED <<inputs, tracing, reporting, scoring, repository_name, orgResponse, userResponse, rResult, mainPc,
                   panicAt, available, mainLease, prs, taskPc, subSt, subRes, held,
                   taskResult, results, firstFailed, finishOrder, faults>>

\* init: let personal_repo = self.find_personal_repository(&github_connection).await?;
\* Some(repository) => Ok(Analyzer), None => Err(RepositoryNotFoundError).
UserSearch ==
    /\ rPc = "user"
    /\ \E resp \in UserResponses :
          /\ userResponse' = resp
          /\ LET r == find_personal_repository(resp)
             IN IF r.tag = "Panic"
                THEN /\ rPc' = "panicked"
                     /\ UNCHANGED rResult
                ELSE /\ rPc' = "done"
                     /\ rResult' = IF r.tag = "Err" THEN Unresolved(r.val)
                                   ELSE IF r.val # 0 THEN Resolved(resp.items[r.val])
                                   ELSE Unresolved("RepositoryNotFoundError")
    /\ mainLease' = FALSE
    /\ release(1)
    /\ UNCHANGED <<inputs, tracing, reporting, scoring, repository_name, orgResponse, mainPc,
                   panicAt, prs, taskPc, subSt, subRes, held, taskResult, results,
                   firstFailed, finishOrder, faults>>

NextResolve ==
    \/ ResolveAcquire
    \/ OrgListed
    \/ OrgListingFails
    \/ UserSearch

\* ------------------------------------------------------------------- Init
RepoStates ==
    UNION {{[pos \in 1..n |-> Header(pos, f[pos])] : f \in [1..n -> HeaderStates]} :
           n \in 0..MaxPRs}

\* The orchestrator before anything ran.
Fresh ==
    /\ panicAt = "none"
    /\ available = PoolSize
    /\ mainLease = FALSE
    /\ prs = <<>>
    /\ taskPc = [i \in Task |-> "unspawned"]
    /\ subSt = [i \in Task |-> [k \in Fetch |-> "unspawned"]]
    /\ subRes = [i \in Task |-> [k \in Fetch |-> NoOutput]]
    /\ held = [i \in Task |-> [k \in Fetch |-> FALSE]]
    /\ taskResult = [i \in Task |-> NoResult]
    /\ results = <<>>
    /\ firstFailed = [i \in Task |-> 0]
    /\ finishOrder = <<>>
    /\ faults = 0

\* main: the Analyzer that init() returned for the repository, about to run
\* retrieve_pr_data(pr_number) or retrieve_repo_data(sample_size).
Init ==
    /\ mode \in {"single", "sample"}
    /\ repoPRs \in RepoStates
    /\ sample_size \in (IF mode = "sample" THEN 1..MaxSample ELSE {MaxSample})
    /\ pr_number \in (IF mode = "single" THEN {PrNumberOf(pos) : pos \in 1..MaxPRs} ELSE {0})
    /\ mainPc = "start"
    /\ repository_name = <<"a">>
    /\ orgResponse = [tag |-> "Ok", items |-> <<repository_name>>]
    /\ userResponse = Unqueried
    /\ rPc = "done"
    /\ rResult = Resolved(repository_name)
    /\ Fresh
    /\ Unscored

\* AnalyzerBuilder::new(owner, repository, ..) for some repository name, with
\* what the remote will answer about the owner's organization.
InitResolve ==
    /\ repository_name \in Names
    /\ orgResponse \in OrgResponses
    /\ userResponse = Unqueried
    /\ rPc = "start"
    /\ rResult = NotReturned
    /\ mode = "sample"
    /\ repoPRs = <<>>
    /\ sample_size = 1
    /\ pr_number = 0
    /\ mainPc = "uninitialized"
    /\ Fresh
    /\ Unscored

SpecResolve == InitResolve /\ [][NextResolve]_vars

\* ------------------------------------------------ the entry operations
\* retrieve_repo_data / retrieve_pr_data: let github_connection = self.get_github_client().await
EntryAcquire ==
    /\ mainPc = "start"
    /\ get_github_client
    /\ mainLease' = TRUE
    /\ mainPc' = IF mode = "sample" THEN "list" ELSE "header"
    /\ UNCHANGED <<inputs, tracing, reporting, scoring, resolver, panicAt, prs, taskPc, subSt, subRes, held, taskResult,
                   results, firstFailed, finishOrder, faults>>

\* retrieve_repo_data: the listing came back; one tokio::spawn of
\* retrieve_pr_data_from per listed PR, collected in listing order.
ListPRs ==
    /\ mainPc = "list"
    /\ prs' = Listing
    /\ taskPc' = [i \in Task |-> IF i <= Len(Listing) THEN "start" ELSE "unspawned"]
    /\ mainPc' = "join_all"
    /\ UNCHANGED <<inputs, tracing, reporting, scoring, resolver, panicAt, available, mainLease, subSt, subRes, held, taskResult,
                   results, firstFailed, finishOrder, faults>>

\* retrieve_repo_data: .send().await.unwrap_or_else(|e| { error!(..); panic!(e) })
ListPRsFails ==
    /\ mainPc = "list"
    /\ mainPc' = "panicked"
    /\ panicAt' = "retrieve_repo_data"
    /\ mainLease' = FALSE
    /\ release(1)
    /\ UNCHANGED <<inputs, tracing, reporting, scoring, resolver, prs, taskPc, subSt, subRes, held, taskResult, results,
                   firstFailed, finishOrder, faults>>

\* retrieve_pr_data: pulls(owner, repo).get(pr_number) found the PR; control
\* enters retrieve_pr_data_from on the same task.
FetchHeader ==
    /\ mainPc = "header"
    /\ \E pos \in 1..Len(repoPRs) :
          /\ repoPRs[pos].number = pr_number
          /\ prs' = <<repoPRs[pos]>>
    /\ taskPc' = [taskPc EXCEPT ![1] = "start"]
    /\ mainPc' = "inline"
    /\ UNCHANGED <<inputs, tracing, reporting, scoring, resolver, panicAt, available, mainLease, subSt, subRes, held, taskResult,
                   results, firstFailed, finishOrder, faults>>

\* Mutant of FetchHeaderFails: the error leaves the PR number out.
FetchHeaderFailsUnnumbered ==
    /\ mainPc = "header"
    /\ results' = <<PullRequestNotFound(RepoName, 0)>>
    /\ mainPc' = "returned"
    /\ mainLease' = FALSE
    /\ release(1)
    /\ UNCHANGED <<inputs, tracing, reporting, scoring, resolver, panicAt, prs, taskPc, subSt, subRes, held, taskResult,
                   firstFailed, finishOrder, faults>>

\* retrieve_pr_data: .get(pr_number).await.map_err(|e| PullRequestNotFound {..})?
FetchHeaderFails ==
    /\ mainPc = "header"
    /\ results' = <<PullRequestNotFound(RepoName, pr_number)>>
    /\ mainPc' = "returned"
    /\ mainLease' = FALSE
    /\ release(1)
    /\ UNCHANGED <<inputs, tracing, reporting, scoring, resolver, panicAt, prs, taskPc, subSt, subRes, held, taskResult,
                   firstFailed, finishOrder, faults>>

\* ------------------------------------------------ retrieve_pr_data_from
\* retrieve_pr_data_from returns r for PR i: to its JoinHandle in a sample, to
\* retrieve_pr_data (which returns it, dropping its connection) for a single PR.
Return(i, r) ==
    /\ taskResult' = [taskResult EXCEPT ![i] = r]
    /\ taskPc' = [taskPc EXCEPT ![i] = "returned"]
    /\ finishOrder' = Append(finishOrder, i)
    /\ IF mode = "single"
       THEN /\ results' = <<r>>
            /\ mainPc' = "returned"
            /\ mainLease' = FALSE
            /\ release(1)
       ELSE UNCHANGED <<results, mainPc, mainLease, available>>

\* let merged_at = Analyzer::get_merged_date(&pr)?;
\* let closed_at = Analyzer::get_closed_date(&pr)?;
Validate(i) ==
    /\ taskPc[i] = "start"
    /\ LET m == get_merged_date(prs[i])
           c == get_closed_date(prs[i])
       IN IF m.tag = "Err" THEN Return(i, m.val)
          ELSE IF c.tag = "Err" THEN Return(i, c.val)
          ELSE /\ taskPc' = [taskPc EXCEPT ![i] = "launch"]
               /\ UNCHANGED <<taskResult, finishOrder, results, mainPc, mainLease, available>>
    /\ UNCHANGED <<inputs, tracing, reporting, scoring, resolver, panicAt, prs, subSt, subRes, held, firstFailed, faults>>

\* Mutant of Launch: each sub-fetch is awaited before the next one is spawned.
LaunchAwaitingPrevious(i) ==
    /\ taskPc[i] = "launch"
    /\ \A k \in Fetch : subSt[i][k] # "running"
    /\ get_github_client
    /\ LET k == Launched(i) + 1
       IN /\ held' = [held EXCEPT ![i][k] = TRUE]
          /\ subSt' = [subSt EXCEPT ![i][k] = "running"]
          /\ taskPc' = [taskPc EXCEPT ![i] = IF k = NumFetches THEN "join" ELSE "launch"]
    /\ UNCHANGED <<inputs, tracing, reporting, scoring, resolver, mainPc, panicAt, mainLease, prs, subRes, taskResult,
                   results, firstFailed, finishOrder, faults>>

\* tokio::spawn({ ..; let github_connection = self.get_github_client().await;
\*                async move { .. } }): the next of the five tasks is spawned
\* once its connection is acquired; after the fifth, control is at try_join!.
Launch(i) ==
    /\ taskPc[i] = "launch"
    /\ get_github_client
    /\ LET k == Launched(i) + 1
       IN /\ held' = [held EXCEPT ![i][k] = TRUE]
          /\ subSt' = [subSt EXCEPT ![i][k] = "running"]
          /\ taskPc' = [taskPc EXCEPT ![i] = IF k = NumFetches THEN "join" ELSE "launch"]
    /\ UNCHANGED <<inputs, tracing, reporting, scoring, resolver, mainPc, panicAt, mainLease, prs, subRes, taskResult,
                   results, firstFailed, finishOrder, faults>>

\* A spawned sub-fetch task ends: its connection goes back to the pool, and its
\* output goes to its JoinHandle, or nowhere when the handle was dropped.
SubFinish(i, k) ==
    /\ subSt[i][k] = "running"
    /\ mainPc # "panicked"
    /\ \E resp \in Responses(k) :
          /\ resp # Nominal(k) => faults < MaxFaults
          /\ faults' = IF resp # Nominal(k) THEN faults + 1 ELSE faults
          /\ LET out == task_output(k, resp)
             IN /\ subRes' = [subRes EXCEPT ![i][k] =
                                  IF taskPc[i] \in {"launch", "join"} THEN out ELSE Discarded]
                /\ firstFailed' = [firstFailed EXCEPT ![i] =
                                  IF out.tag = "JoinError" /\ firstFailed[i] = 0
                                  THEN k ELSE firstFailed[i]]
    /\ subSt' = [subSt EXCEPT ![i][k] = "finished"]
    /\ held' = [held EXCEPT ![i][k] = FALSE]
    /\ release(1)
    /\ UNCHANGED <<inputs, tracing, reporting, scoring, resolver, mainPc, panicAt, mainLease, prs, taskPc, taskResult,
                   results, finishOrder>>

\* Mutant of try_join: waits for the five handles and keeps whatever succeeded.
try_join_lax(i) ==
    IF \A k \in Fetch : subRes[i][k].tag \in {"Ok", "JoinError"}
    THEN [tag |-> "Ok",
          val |-> [k \in Fetch |-> IF subRes[i][k].tag = "Ok" THEN subRes[i][k].val ELSE "none"]]
    ELSE [tag |-> "Pending", val |-> NoData]

\* The sub-fetch tasks of PR i whose JoinHandle holds a JoinError.
Failed(i) == {k \in Fetch : subRes[i][k].tag = "JoinError"}

\* try_join!(comments, commit_comments, reviews, diff, commits): the handles are
\* polled in this order and the first one found to hold an error ends the join.
try_join(i) ==
    IF Failed(i) # {}
    THEN LET k == Min(Failed(i))
         IN [tag |-> "Err", val |-> [tag |-> "JoinError", val |-> subRes[i][k].val, of |-> k]]
    ELSE IF \A k \in Fetch : subRes[i][k].tag = "Ok"
    THEN [tag |-> "Ok", val |-> [k \in Fetch |-> subRes[i][k].val]]
    ELSE [tag |-> "Pending", val |-> NoData]

\* Mutant of Join: a failed join aborts the sub-fetch tasks still running.
JoinAborting(i) ==
    /\ taskPc[i] = "join"
    /\ LET j == try_join(i)
           running == {k \in Fetch : subSt[i][k] = "running"}
       IN /\ j.tag # "Pending"
          /\ taskResult' = [taskResult EXCEPT ![i] =
                 IF j.tag = "Ok" THEN PullRequestData(RepoName, prs[i].number, j.val)
                 ELSE PullRequestDataRetrievalError(RepoName, prs[i].number, j.val)]
          /\ taskPc' = [taskPc EXCEPT ![i] = "returned"]
          /\ finishOrder' = Append(finishOrder, i)
          /\ subSt' = [subSt EXCEPT ![i] = [k \in Fetch |-> "finished"]]
          /\ held' = [held EXCEPT ![i] = [k \in Fetch |-> FALSE]]
          /\ IF mode = "single"
             THEN /\ results' = <<taskResult'[i]>>
                  /\ mainPc' = "returned"
                  /\ mainLease' = FALSE
                  /\ release(1 + Cardinality(running))
             ELSE /\ release(Cardinality(running))
                  /\ UNCHANGED <<results, mainPc, mainLease>>
    /\ UNCHANGED <<inputs, tracing, reporting, scoring, resolver, panicAt, prs, subRes, firstFailed, faults>>

\* match concurrent_fetches { Ok((..)) => Ok(PullRequestData::new(..)),
\*     Err(err) => Err(PullRequestDataRetrievalError { repo_name, pr_number, nested!(err) }) }
Join(i) ==
    /\ taskPc[i] = "join"
    /\ LET j == try_join(i)
       IN /\ j.tag # "Pending"
          /\ IF j.tag = "Ok"
             THEN Return(i, PullRequestData(RepoName, prs[i].number, j.val))
             ELSE Return(i, PullRequestDataRetrievalError(RepoName, prs[i].number, j.val))
    /\ UNCHANGED <<inputs, tracing, reporting, scoring, resolver, panicAt, prs, subSt, subRes, held, firstFailed, faults>>

\* Mutant of join_all: the first failed task's error stands for the whole sample
\* (collecting into one Result).
join_all_first_error ==
    LET bad == {i \in 1..Len(prs) : taskPc[i] = "panicked" \/ taskResult[i].kind # "Ok"}
        err(i) == IF taskPc[i] = "panicked" THEN AsyncTaskError ELSE taskResult[i]
    IN [i \in 1..Len(prs) |-> IF bad # {} THEN err(Min(bad)) ELSE taskResult[i]]

\* Mutant of join_all: results in the order the tasks ended.
join_all_completion_order ==
    [n \in 1..Len(prs) |->
        LET i == finishOrder[n]
        IN IF taskPc[i] = "panicked" THEN AsyncTaskError ELSE taskResult[i]]

\* join_all(analysis_tasks).await, then a task that ended in a JoinError becomes
\* Err(AsyncTaskError); retrieve_repo_data returns and drops its connection.
join_all ==
    [i \in 1..Len(prs) |-> IF taskPc[i] = "panicked" THEN AsyncTaskError ELSE taskResult[i]]

JoinAll ==
    /\ mainPc = "join_all"
    /\ \A i \in 1..Len(prs) : taskPc[i] \in {"returned", "panicked"}
    /\ results' = join_all
    /\ mainPc' = "returned"
    /\ mainLease' = FALSE
    /\ release(1)
    /\ UNCHANGED <<inputs, tracing, reporting, scoring, resolver, panicAt, prs, taskPc, subSt, subRes, held, taskResult,
                   firstFailed, finishOrder, faults>>

Next ==
    \/ EntryAcquire
    \/ ListPRs
    \/ ListPRsFails
    \/ FetchHeader
    \/ FetchHeaderFails
    \/ \E i \in Task : Validate(i)
    \/ \E i \in Task : Launch(i)
    \/ \E i \in Task, k \in Fetch : SubFinish(i, k)
    \/ \E i \in Task : Join(i)
    \/ JoinAll

Spec == Init /\ [][Next]_vars

\* The same program under its scheduling: the tokio runtime polls every task
\* that can make progress, deadpool's semaphore wakes a waiter whenever a
\* connection is dropped, and every remote call comes back, so a step that
\* stays possible is eventually taken.
SpecFair == Init /\ [][Next]_vars /\ WF_vars(Next)

\* ------------------------------------------- pool.get() returning an error
\* get_github_client: .get().await.unwrap_or_else(|e| { error!(..); panic!(e) })
\* at the head of retrieve_repo_data / retrieve_pr_data: the main task unwinds.
EntryAcquireFails ==
    /\ mainPc = "start"
    /\ mainPc' = "panicked"
    /\ panicAt' = IF mode = "sample" THEN "retrieve_repo_data" ELSE "retrieve_pr_data"
    /\ UNCHANGED <<inputs, tracing, reporting, scoring, resolver, available, mainLease, prs, taskPc, subSt, subRes, held,
                   taskResult, results, firstFailed, finishOrder, faults>>

\* The same panic inside retrieve_pr_data_from, before one of its five spawns. In
\* a sample it unwinds the PR's spawned task, whose JoinHandle then holds a
\* JoinError; for a single PR retrieve_pr_data_from runs on the main task.
LaunchAcquireFails(i) ==
    /\ taskPc[i] = "launch"
    /\ IF mode = "single"
       THEN /\ mainPc' = "panicked"
            /\ panicAt' = "retrieve_pr_data_from"
            /\ UNCHANGED <<taskPc, finishOrder>>
       ELSE /\ taskPc' = [taskPc EXCEPT ![i] = "panicked"]
            /\ finishOrder' = Append(finishOrder, i)
            /\ UNCHANGED <<mainPc, panicAt>>
    /\ UNCHANGED <<inputs, tracing, reporting, scoring, resolver, available, mainLease, prs, subSt, subRes, held,
                   taskResult, results, firstFailed, faults>>

NextTimeout ==
    \/ Next
    \/ EntryAcquireFails
    \/ \E i \in Task : LaunchAcquireFails(i)

SpecTimeout == Init /\ [][NextTimeout]_vars

\* ------------------------------------------- ReviewState, deserialized
\* The orchestrator and the resolver at rest, while a text is deserialized or a
\* bundle is scored.
NotRunning ==
    /\ mode = "sample"
    /\ repoPRs = <<>>
    /\ sample_size = 1
    /\ pr_number = 0
    /\ mainPc = "uninitialized"
    /\ repository_name = <<"a">>
    /\ orgResponse = [tag |-> "Ok", items |-> <<repository_name>>]
    /\ userResponse = Unqueried
    /\ rPc = "done"
    /\ rResult = Resolved(repository_name)
    /\ Fresh

\* The texts a "state" field is tried with: the five states the API knows, a
\* truncated one, a misspelt one, an unrelated one and the empty text, each
\* with every casing of its first MaxCasePos characters and in full upper case.
StateTexts ==
    {<<"a", "p", "p", "r", "o", "v", "e", "d">>,
     <<"p", "e", "n", "d", "i", "n", "g">>,
     <<"c", "h", "a", "n", "g", "e", "s", "_", "r", "e", "q", "u", "e", "s", "t", "e", "d">>,
     <<"c", "o", "m", "m", "e", "n", "t", "e", "d">>,
     <<"d", "i", "s", "m", "i", "s", "s", "e", "d">>,
     <<"a", "p", "p", "r", "o", "v", "e">>,
     <<"c", "h", "a", "n", "g", "e", "s", "-", "r", "e", "q", "u", "e", "s", "t", "e", "d">>,
     <<"f", "o", "o">>,
     <<>>}

Cased(w, S) == [n \in 1..Len(w) |-> IF n \in S THEN to_ascii_uppercase(w[n]) ELSE w[n]]

Values ==
    {Cased(w, S) : w \in StateTexts, S \in SUBSET (1..MaxCasePos)}
    \cup {Cased(w, 1..Len(w)) : w \in StateTexts}

\* Mutant of visit_str: a schema that knows four of the five states.
visit_str_four_states(v) ==
    CASE v = <<"A", "P", "P", "R", "O", "V", "E", "D">>
         \/ v = <<"a", "p", "p", "r", "o", "v", "e", "d">> -> Ok("Approved")
      [] v = <<"P", "E", "N", "D", "I", "N", "G">>
         \/ v = <<"p", "e", "n", "d", "i", "n", "g">> -> Ok("Pending")
      [] v = <<"C", "H", "A", "N", "G", "E", "S", "_", "R", "E", "Q", "U", "E", "S", "T", "E", "D">>
         \/ v = <<"c", "h", "a", "n", "g", "e", "s", "_", "r", "e", "q", "u", "e", "s", "t", "e", "d">>
             -> Ok("ChangesRequested")
      [] v = <<"C", "O", "M", "M", "E", "N", "T", "E", "D">>
         \/ v = <<"c", "o", "m", "m", "e", "n", "t", "e", "d">> -> Ok("Commented")
      [] OTHER -> Err("unknown variant")

\* impl Deserialize for ReviewState, Visitor::visit_str: the match on the text.
visit_str(v) ==
    CASE v = <<"A", "P", "P", "R", "O", "V", "E", "D">>
         \/ v = <<"a", "p", "p", "r", "o", "v", "e", "d">> -> Ok("Approved")
      [] v = <<"P", "E", "N", "D", "I", "N", "G">>
         \/ v = <<"p", "e", "n", "d", "i", "n", "g">> -> Ok("Pending")
      [] v = <<"C", "H", "A", "N", "G", "E", "S", "_", "R", "E", "Q", "U", "E", "S", "T", "E", "D">>
         \/ v = <<"c", "h", "a", "n", "g", "e", "s", "_", "r", "e", "q", "u", "e", "s", "t", "e", "d">>
             -> Ok("ChangesRequested")
      [] v = <<"C", "O", "M", "M", "E", "N", "T", "E", "D">>
         \/ v = <<"c", "o", "m", "m", "e", "n", "t", "e", "d">> -> Ok("Commented")
      [] v = <<"D", "I", "S", "M", "I", "S", "S", "E", "D">>
         \/ v = <<"d", "i", "s", "m", "i", "s", "s", "e", "d">> -> Ok("Dismissed")
      [] OTHER -> Err("unknown variant")

\* A review's "state" text arrives.
InitReview ==
    /\ value \in Values
    /\ deserialized = NotDeserialized
    /\ bundle = NoBundle
    /\ pr_score = NotScored
    /\ debug = NoDebug
    /\ included = <<>>
    /\ repo_score = NotScored
    /\ Untraced
    /\ Unreported
    /\ NotRunning

\* ReviewState::deserialize: deserializer.deserialize_str(Visitor)
Deserialize ==
    /\ deserialized = NotDeserialized
    /\ deserialized' = visit_str(value)
    /\ UNCHANGED <<inputs, tracing, reporting, resolver, orchestrator, value, bundle, pr_score, debug,
                   included, repo_score>>

NextReview == Deserialize

SpecReview == InitReview /\ [][NextReview]_vars

\* ------------------------------------------------------- PullRequestData
\* f64 values are kept as exact fractions num/den in lowest terms; 0/0 stands
\* for NaN and 1/0 for +infinity. (The rounding of the binary representation is
\* not modelled.)
RECURSIVE gcd(_, _)
gcd(a, b) == IF b = 0 THEN a ELSE gcd(b, a % b)

F(n, d) == LET g == gcd(n, d) IN [num |-> n \div g, den |-> d \div g]
NaN == [num |-> 0, den |-> 0]
Inf == [num |-> 1, den |-> 0]

\* f64::trunc((a as f64 / b as f64) * 100.0) / 100.0, for a, b >= 0
trunc2(a, b) ==
    IF b = 0 THEN (IF a = 0 THEN NaN ELSE Inf)
    ELSE F((a * 100) \div b, 100)

\* `as u64` of an i64: the value modulo 2^64 (the width is scaled to the
\* integers the model checker has).
U64 == 2^30
as_u64(x) == x % U64

\* chrono::Duration::num_days: whole days, truncated towards zero.
num_days(d) == IF d >= 0 THEN d \div TicksPerDay ELSE -((-d) \div TicksPerDay)

\* DateTime::date: the calendar day of a timestamp.
date(t) == t \div TicksPerDay

RECURSIVE sum(_)
sum(s) == IF s = <<>> THEN 0 ELSE s[1] + sum(Tail(s))

RECURSIVE flatten(_)
flatten(ss) == IF ss = <<>> THEN <<>> ELSE ss[1] \o flatten(Tail(ss))

map(s, Op(_)) == [n \in 1..Len(s) |-> Op(s[n])]

\* Itertools::unique: the first occurrence of every element, in order.
RECURSIVE unique(_)
unique(s) ==
    IF s = <<>> THEN <<>>
    ELSE LET r == unique(SubSeq(s, 1, Len(s) - 1))
             x == s[Len(s)]
         IN IF \E n \in 1..Len(r) : r[n] = x THEN r ELSE Append(r, x)

\* str::contains
contains(hay, needle) ==
    \E n \in 1..(Len(hay) - Len(needle) + 1) : SubSeq(hay, n, n + Len(needle) - 1) = needle

\* A text, by its length in bytes and the matches ATTACHMENT_REGEX finds in it;
\* None for an absent Option<String>.
Text(len, links) == [some |-> TRUE, len |-> len, links |-> links]
None == [some |-> FALSE, len |-> 0, links |-> 0]

\* unidiff's PatchSet: added_files(), modified_files(), files().
added_files(ps) == SelectSeq(ps, LAMBDA f : f.kind = "added")
modified_files(ps) == SelectSeq(ps, LAMBDA f : f.kind = "modified")
files(ps) == ps

\* is_test_file: name.to_ascii_lowercase().contains("test")
is_test_file(name) ==
    contains([n \in 1..Len(name) |-> to_ascii_lowercase(name[n])], <<"t", "e", "s", "t">>)

\* Mutant of count_net_added_lines_for_hunk: the difference, not floored.
count_net_added_lines_unfloored(hunk) == hunk.added - hunk.removed

\* count_net_added_lines_for_hunk
count_net_added_lines_for_hunk(hunk) ==
    LET net_added == hunk.added - hunk.removed
    IN IF net_added > 0 THEN net_added ELSE 0

\* Mutant of get_amount_of_net_added_test_lines: every file of the diff.
get_amount_of_net_added_test_lines_all_files(b) ==
    sum(map(flatten(map(SelectSeq(files(b.patch_set),
                                  LAMBDA f : is_test_file(f.target_file)),
                        LAMBDA f : f.hunks)),
            count_net_added_lines_for_hunk))

\* get_amount_of_net_added_test_lines
get_amount_of_net_added_test_lines(b) ==
    sum(map(flatten(map(SelectSeq(added_files(b.patch_set) \o modified_files(b.patch_set),
                                  LAMBDA f : is_test_file(f.target_file)),
                        LAMBDA f : f.hunks)),
            count_net_added_lines_for_hunk))

\* get_amount_of_net_added_non_test_lines
get_amount_of_net_added_non_test_lines(b) ==
    sum(map(flatten(map(SelectSeq(added_files(b.patch_set) \o modified_files(b.patch_set),
                                  LAMBDA f : ~is_test_file(f.target_file)),
                        LAMBDA f : f.hunks)),
            count_net_added_lines_for_hunk))

\* get_amount_of_changes
get_amount_of_changes(b) ==
    sum(map(flatten(map(files(b.patch_set), LAMBDA f : f.hunks)),
            LAMBDA hunk : hunk.added + hunk.removed))

\* filter_map(|c| c.body.as_ref()): the bodies that are present.
bodies(cs) == SelectSeq(map(cs, LAMBDA c : c.body), LAMBDA t : t.some)

\* Mutant of get_author_commentary: the PR body is left out.
get_author_commentary_without_body(b) ==
    bodies(SelectSeq(b.comments, LAMBDA c : c.login = b.pr_author))
    \o bodies(SelectSeq(b.commit_comments, LAMBDA c : c.login = b.pr_author))
    \o bodies(SelectSeq(b.reviews, LAMBDA c : c.login = b.pr_author))

\* get_author_commentary: the PR body, then the author's comments, commit
\* comments and reviews.
get_author_commentary(b) ==
    <<b.main_message>>
    \o bodies(SelectSeq(b.comments, LAMBDA c : c.login = b.pr_author))
    \o bodies(SelectSeq(b.commit_comments, LAMBDA c : c.login = b.pr_author))
    \o bodies(SelectSeq(b.reviews, LAMBDA c : c.login = b.pr_author))

\* get_all_commentary
get_all_commentary(b) ==
    <<b.main_message>> \o bodies(b.comments) \o bodies(b.commit_comments) \o bodies(b.reviews)

get_amount_of_author_commentary(b) == sum(map(get_author_commentary(b), LAMBDA t : t.len))
get_amount_of_commentary(b) == sum(map(get_all_commentary(b), LAMBDA t : t.len))

\* str::starts_with
starts_with(s, prefix) == Len(s) >= Len(prefix) /\ SubSeq(s, 1, Len(prefix)) = prefix

\* Mutant of is_merge_pr: only the capitalised spelling counts.
is_merge_pr_capitalised(b) == starts_with(b.pr_title, <<"M", "e", "r", "g", "e">>)

\* is_merge_pr: self.pr_title.to_ascii_lowercase().starts_with("merge")
is_merge_pr(b) ==
    starts_with([n \in 1..Len(b.pr_title) |-> to_ascii_lowercase(b.pr_title[n])],
                <<"m", "e", "r", "g", "e">>)

\* Mutant of get_non_authoring_participants: the author is not filtered out.
get_participants_with_author(b) ==
    unique(map(b.comments, LAMBDA c : c.login)
           \o map(b.reviews, LAMBDA c : c.login)
           \o map(b.commit_comments, LAMBDA c : c.login))

\* get_non_authoring_participants
get_non_authoring_participants(b) ==
    SelectSeq(unique(map(b.comments, LAMBDA c : c.login)
                     \o map(b.reviews, LAMBDA c : c.login)
                     \o map(b.commit_comments, LAMBDA c : c.login)),
              LAMBDA user : user # b.pr_author)

\* get_non_authoring_reviewers
get_non_authoring_reviewers(b) ==
    SelectSeq(unique(map(b.reviews, LAMBDA c : c.login)), LAMBDA user : user # b.pr_author)

\* get_attachments_markdown: the matches of ATTACHMENT_REGEX over the author's
\* commentary.
get_attachments_markdown(b) == sum(map(get_author_commentary(b), LAMBDA t : t.links))

\* get_first_commit_date: self.commits.get(0) .. .commit.author.date, for a
\* bundle that has a commit.
get_first_commit_date(b) == b.commits[1]

\* let pull_request_lead_time = (self.closed_at - self.created_at).num_days() as u64
pull_request_lead_time(b) == as_u64(num_days(b.closed_at - b.created_at))

\* let time_to_merge = (self.merged_at - first_commit_at).num_days() as u64
time_to_merge(b) == as_u64(num_days(b.merged_at - get_first_commit_date(b)))

\* let commentary_to_changes_ratio = f64::trunc((author_comments / changes_added) * 100.0) / 100.0
commentary_to_changes_ratio(b) ==
    trunc2(get_amount_of_author_commentary(b), get_amount_of_changes(b))

\* Mutant of test_to_code_ratio: the division without the guard.
test_to_code_ratio_unguarded(b) ==
    trunc2(get_amount_of_net_added_test_lines(b), get_amount_of_net_added_non_test_lines(b))

\* let test_to_code_ratio: f64 = if net_non_test_lines_added == 0 { 0.0 } else { .. }
test_to_code_ratio(b) ==
    IF get_amount_of_net_added_non_test_lines(b) = 0
    THEN F(0, 1)
    ELSE trunc2(get_amount_of_net_added_test_lines(b), get_amount_of_net_added_non_test_lines(b))

\* ScoreType::get_iter(): the variants in declaration order.
ScoreTypes ==
    <<"AmountOfParticipants", "AmountOfReviewers", "Attachments",
      "AuthorCommentaryToChangesRatio", "PullRequestsDiscussionSize",
      "PullRequestFlowRatio", "PullRequestLeadTime", "PullRequestSize",
      "TestToCodeRatio", "TimeToMerge">>

ScoreType(kind, v) == [kind |-> kind, value |-> v]
Score(scorables) == [tag |-> "Ok", score |-> scorables]
Panicked == [tag |-> "Panic", score |-> <<>>]

\* The value get_score pushes for a variant other than PullRequestFlowRatio.
scorable(b, kind) ==
    CASE kind = "AmountOfParticipants" -> Len(get_non_authoring_participants(b))
      [] kind = "AmountOfReviewers" -> Len(get_non_authoring_reviewers(b))
      [] kind = "Attachments" -> get_attachments_markdown(b)
      [] kind = "AuthorCommentaryToChangesRatio" -> commentary_to_changes_ratio(b)
      [] kind = "PullRequestsDiscussionSize" -> get_amount_of_commentary(b)
      [] kind = "PullRequestLeadTime" -> pull_request_lead_time(b)
      [] kind = "PullRequestSize" -> get_amount_of_changes(b)
      [] kind = "TestToCodeRatio" -> test_to_code_ratio(b)
      [] kind = "TimeToMerge" -> time_to_merge(b)

\* Mutant of get_score: the flow ratio is pushed with a default of zero.
get_score_defaulting_flow(b) ==
    IF b.commits = <<>> THEN Panicked
    ELSE Score(map(ScoreTypes,
                   LAMBDA kind : IF kind = "PullRequestFlowRatio" THEN ScoreType(kind, F(0, 1))
                                 ELSE ScoreType(kind, scorable(b, kind))))

\* impl Scorable for PullRequestData, get_score: get_first_commit_date panics
\* on a bundle without commits; otherwise the loop over ScoreType::get_iter()
\* pushes one entry per variant and none for PullRequestFlowRatio.
get_score(b) ==
    IF b.commits = <<>> THEN Panicked
    ELSE Score(flatten(map(ScoreTypes,
                           LAMBDA kind : IF kind = "PullRequestFlowRatio" THEN <<>>
                                         ELSE <<ScoreType(kind, scorable(b, kind))>>)))

\* ------------------------------------------------ bundles that are scored
SeqsUpTo(S, n) == UNION {[1..m -> S] : m \in 0..n}

Logins == {"author", "ann", "bob"}
Paths == {<<"t", "e", "s", "t">>, <<"a", "T", "e", "S", "t">>, <<"t", "e", "s">>,
          <<"m", "a", "i", "n">>}
Hunks == [added : 0..MaxLines, removed : 0..MaxLines]
PatchedFiles == [kind : {"added", "modified", "removed"}, target_file : Paths,
                 hunks : SeqsUpTo(Hunks, MaxHunks)]
PatchSets == SeqsUpTo(PatchedFiles, MaxFiles)
Comments == SeqsUpTo([login : Logins, body : {Text(1, 0)}], MaxComments)
Ticks == 0..MaxTick

\* A pull request nobody commented on, with one commit and an empty diff.
Plain ==
    [repo_name |-> RepoName, pr_number |-> PrNumberOf(1), pr_author |-> "author",
     pr_title |-> <<"f", "i", "x">>, main_message |-> Text(1, 0), comments |-> <<>>, commit_comments |-> <<>>,
     commits |-> <<0>>, reviews |-> <<>>, patch_set |-> <<>>,
     created_at |-> 0, merged_at |-> MaxTick, closed_at |-> MaxTick]

\* retrieve_pr_data_from, the Ok arm: PullRequestData::new(&repo.name, pr.number,
\* .., commits, ..) over what the sub-fetches returned; an empty answer of the
\* commits fetch is an empty Vec<CommitRoot>.
bundle_of(r) ==
    [Plain EXCEPT !.repo_name = r.repo_name, !.pr_number = r.pr_number,
                  !.commits = IF r.data[5] = "empty" THEN <<>> ELSE <<0>>]

\* Bundles over every diff, over every set of commenters, and over every commit
\* list and merge time.
DiffBundles == {[Plain EXCEPT !.patch_set = ps] : ps \in PatchSets}
PeopleBundles ==
    {[Plain EXCEPT !.comments = c, !.reviews = r, !.commit_comments = cc] :
        c \in Comments, r \in Comments, cc \in Comments}
CommitBundles ==
    {[Plain EXCEPT !.commits = cs, !.merged_at = m] :
        cs \in SeqsUpTo(Ticks, MaxCommits), m \in Ticks}

\* Bundles over what the author and one other user wrote: issue comments and
\* reviews whose body (an Option<String>) may be absent, commit comments whose
\* body (a String) is always there, and a PR body that may be empty.
Remarks == SeqsUpTo([login : {"author", "ann"}, body : {None, Text(2, 1)}],
                    MaxComments)
CommitRemarks == SeqsUpTo([login : {"author", "ann"}, body : {Text(1, 0)}], MaxComments)
TextBundles ==
    {[Plain EXCEPT !.main_message = m, !.comments = c, !.reviews = r, !.commit_comments = cc] :
        m \in {Text(0, 0), Text(1, 0)}, c \in Remarks, r \in Remarks, cc \in CommitRemarks}

InitScore ==
    /\ bundle \in DiffBundles \cup PeopleBundles \cup CommitBundles \cup TextBundles
    /\ pr_score = NotScored
    /\ debug = NoDebug
    /\ included = <<>>
    /\ repo_score = NotScored
    /\ value = <<>>
    /\ deserialized = NotDeserialized
    /\ Untraced
    /\ Unreported
    /\ NotRunning

\* pr.get_score(), with what its debug! lines report.
GetScore ==
    /\ bundle # NoBundle
    /\ pr_score = NotScored
    /\ pr_score' = get_score(bundle)
    /\ debug' = [all_comments |-> get_amount_of_commentary(bundle),
                 author_comments |-> get_amount_of_author_commentary(bundle),
                 all_commentary |-> get_all_commentary(bundle),
                 author_commentary |-> get_author_commentary(bundle),
                 net_test_lines_added |-> get_amount_of_net_added_test_lines(bundle),
                 net_non_test_lines_added |-> get_amount_of_net_added_non_test_lines(bundle),
                 test_to_code_ratio |-> test_to_code_ratio(bundle),
                 non_authoring_participants |-> get_non_authoring_participants(bundle),
                 non_authoring_reviewers |-> get_non_authoring_reviewers(bundle)]
    /\ UNCHANGED <<inputs, tracing, reporting, resolver, orchestrator, value, deserialized, bundle,
                   included, repo_score>>

NextScore == GetScore

SpecScore == InitScore /\ [][NextScore]_vars

\* ------------------------------------------- Vec<&PullRequestData>, scored
\* f64 addition and the division of an f64 by a count.
FAdd(x, y) ==
    IF x = NaN \/ y = NaN THEN NaN
    ELSE IF x = Inf \/ y = Inf THEN Inf
    ELSE F(x.num * y.den + y.num * x.den, x.den * y.den)

FDiv(x, n) ==
    IF x = NaN THEN NaN
    ELSE IF x = Inf THEN Inf
    ELSE IF n = 0 THEN (IF x.num = 0 THEN NaN ELSE Inf)
    ELSE F(x.num, x.den * n)

RECURSIVE fsum(_)
fsum(s) == IF s = <<>> THEN F(0, 1) ELSE FAdd(s[1], fsum(Tail(s)))

\* Mutant of div_ceil: the quotient rounded down.
div_floor(a, n) == a \div n

\* num::integer::div_ceil on unsigned integers, for a divisor other than 0.
div_ceil(a, n) == (a \div n) + (IF a % n # 0 THEN 1 ELSE 0)

\* The fold of calculate_pull_request_flow_ratio: how many of the PRs have the
\* timestamp at(prd) on each day that occurs.
day_map(prds, at(_)) ==
    [d \in {date(at(prds[n])) : n \in 1..Len(prds)} |->
        Cardinality({n \in 1..Len(prds) : date(at(prds[n])) = d})]

RECURSIVE fsum_over(_, _)
fsum_over(m, D) ==
    IF D = {} THEN F(0, 1)
    ELSE LET d == CHOOSE x \in D : TRUE IN FAdd(m[d], fsum_over(m, D \ {d}))

\* Mutant of calculate_pull_request_flow_ratio: the sum is divided by the number
\* of days on which a PR was created.
flow_ratio_over_created_days(prds) ==
    LET created_at_map == day_map(prds, LAMBDA prd : prd.created_at)
        closed_at_map == day_map(prds, LAMBDA prd : prd.closed_at)
        matched == DOMAIN created_at_map \cap DOMAIN closed_at_map
        pull_request_flow_ratio_map == [d \in matched |-> F(created_at_map[d], closed_at_map[d])]
    IN FDiv(fsum_over(pull_request_flow_ratio_map, matched), Cardinality(DOMAIN created_at_map))

\* calculate_pull_request_flow_ratio
calculate_pull_request_flow_ratio(prds) ==
    LET created_at_map == day_map(prds, LAMBDA prd : prd.created_at)
        closed_at_map == day_map(prds, LAMBDA prd : prd.closed_at)
        matched == DOMAIN created_at_map \cap DOMAIN closed_at_map
        pull_request_flow_ratio_map == [d \in matched |-> F(created_at_map[d], closed_at_map[d])]
    IN FDiv(fsum_over(pull_request_flow_ratio_map, matched), Cardinality(matched))

\* let scores = self.iter().map(|prd| prd.get_score()).flat_map(|score| score.score()).collect()
collect_scores(prds) == flatten(map(prds, LAMBDA prd : get_score(prd).score))

\* The total the first loop accumulates for a variant: the values of the
\* entries of that variant, added up.
total(scores, kind) ==
    LET values == map(SelectSeq(scores, LAMBDA e : e.kind = kind), LAMBDA e : e.value)
    IN IF kind \in {"AuthorCommentaryToChangesRatio", "TestToCodeRatio"}
       THEN fsum(values) ELSE sum(values)

\* The value the second loop pushes for a variant. (The loc and test_loc
\* fields of TestToCodeRatio, which the per-PR score above does not carry, are
\* left out.)
mean(prds, scores, kind) ==
    LET total_amount_of_prs == Len(prds)
    IN CASE kind = "PullRequestFlowRatio" -> calculate_pull_request_flow_ratio(prds)
         [] kind \in {"AuthorCommentaryToChangesRatio", "TestToCodeRatio"} ->
                FDiv(total(scores, kind), total_amount_of_prs)
         [] OTHER -> div_ceil(total(scores, kind), total_amount_of_prs)

\* impl Scorable for Vec<&PullRequestData>, get_score: a panic of a PR's own
\* get_score unwinds it; so does the division by total_amount_of_prs = 0 in
\* the first div_ceil.
get_repository_score(prds) ==
    IF \E n \in 1..Len(prds) : get_score(prds[n]).tag = "Panic" THEN Panicked
    ELSE IF Len(prds) = 0 THEN Panicked
    ELSE Score(map(ScoreTypes,
                   LAMBDA kind : ScoreType(kind, mean(prds, collect_scores(prds), kind))))

\* The bundles a sample is made of: created on any day and closed then or
\* later, with none to two commenters and with a diff of code, or of tests and code.
Commenters == {<<>>, <<[login |-> "ann", body |-> Text(1, 0)]>>,
               <<[login |-> "ann", body |-> Text(1, 0)], [login |-> "bob", body |-> Text(1, 0)]>>}
Diffs ==
    {<<[kind |-> "added", target_file |-> <<"m", "a", "i", "n">>,
        hunks |-> <<[added |-> 1, removed |-> 0], [added |-> 1, removed |-> 0]>>]>>,
     <<[kind |-> "added", target_file |-> <<"t", "e", "s", "t">>,
        hunks |-> <<[added |-> 1, removed |-> 0]>>],
       [kind |-> "modified", target_file |-> <<"m", "a", "i", "n">>,
        hunks |-> <<[added |-> 1, removed |-> 0], [added |-> 1, removed |-> 1]>>]>>,
     <<[kind |-> "added", target_file |-> <<"t", "e", "s", "t">>,
        hunks |-> <<[added |-> 1, removed |-> 0]>>],
       [kind |-> "modified", target_file |-> <<"m", "a", "i", "n">>,
        hunks |-> <<[added |-> 1, removed |-> 0], [added |-> 1, removed |-> 0]>>]>>}
RepoBundles ==
    {b \in {[Plain EXCEPT !.created_at = c, !.closed_at = k, !.merged_at = k,
                          !.comments = cs, !.patch_set = ps] :
                c \in Ticks, k \in Ticks, cs \in Commenters, ps \in Diffs} :
        b.created_at <= b.closed_at}

\* main: the bundles that were retrieved and passed the merge-PR filter,
\* collected into a Vec<&PullRequestData>; none, when every PR failed.
InitRepo ==
    /\ included \in SeqsUpTo(RepoBundles, MaxIncluded)
    /\ repo_score = NotScored
    /\ bundle = NoBundle
    /\ pr_score = NotScored
    /\ debug = NoDebug
    /\ value = <<>>
    /\ deserialized = NotDeserialized
    /\ Untraced
    /\ Unreported
    /\ NotRunning

\* .collect::<Vec<&PullRequestData>>().get_score()
Aggregate ==
    /\ repo_score = NotScored
    /\ repo_score' = get_repository_score(included)
    /\ debug' = IF \E n \in 1..Len(included) : get_score(included[n]).tag = "Panic"
                THEN NoDebug
                ELSE [scores |-> collect_scores(included)]
    /\ UNCHANGED <<inputs, tracing, reporting, resolver, orchestrator, value, deserialized, bundle, pr_score,
                   included>>

NextRepo == Aggregate

SpecRepo == InitRepo /\ [][NextRepo]_vars

\* ------------------------------------------------------------------ main
\* Mutant of ok: a failed retrieval counts as a pull request without content.
ok_or_default(r) == IF r.tag = "Ok" THEN <<r.val>> ELSE <<Plain>>

\* pull_request_data_result.as_ref().ok(): the bundle of a successful
\* retrieval, nothing for a failed one.
ok(r) == IF r.tag = "Ok" THEN <<r.val>> ELSE <<>>

\* .iter().filter_map(|r| r.as_ref().ok())
\* .filter(|prd| include_merge_prs || !prd.is_merge_pr()).collect()
collect(retrieved, flag) ==
    SelectSeq(flatten(map(retrieved, ok)), LAMBDA prd : flag \/ ~is_merge_pr(prd))

\* What a retrieval can hand to main for one pull request: a bundle, with a
\* title that does or does not start with "merge" in some casing, created and
\* closed on the same day or on different days, with or without a commenter;
\* or one of the errors of the orchestrator.
Titles == {<<"M", "e", "r", "g", "e", " ", "x">>, <<"m", "E", "R", "G", "E">>,
           <<"e", "m", "e", "r", "g", "e">>, <<"f", "i", "x">>}
Lifetimes == {<<0, 1>>, <<0, MaxTick>>, <<TicksPerDay, MaxTick>>}
MainBundles ==
    {[Plain EXCEPT !.pr_title = t, !.created_at = l[1], !.closed_at = l[2], !.merged_at = l[2],
                   !.comments = cs] :
        t \in Titles, l \in Lifetimes,
        cs \in {<<>>, <<[login |-> "ann", body |-> Text(1, 0)]>>}}
Outcomes ==
    {Ok(b) : b \in MainBundles}
    \cup {Err(PullRequestIncompleteDataError("merged_at", PrNumberOf(1))), Err(AsyncTaskError)}

\* main, after the Analyzer was built and its retrieval has come back.
InitMain ==
    /\ mode \in {"single", "sample"}
    /\ include_merge_prs \in BOOLEAN
    /\ outcomes \in (IF mode = "single" THEN [1..1 -> Outcomes]
                     ELSE SeqsUpTo(Outcomes, MaxOutcomes))
    /\ exit_code = "running"
    /\ pr_number = IF mode = "single" THEN PrNumberOf(1) ELSE 0
    /\ repoPRs = <<>>
    /\ sample_size = 1
    /\ mainPc = "uninitialized"
    /\ repository_name = <<"a">>
    /\ orgResponse = [tag |-> "Ok", items |-> <<repository_name>>]
    /\ userResponse = Unqueried
    /\ rPc = "done"
    /\ rResult = Resolved(repository_name)
    /\ Fresh
    /\ Untraced
    /\ value = <<>>
    /\ deserialized = NotDeserialized
    /\ bundle = NoBundle
    /\ pr_score = NotScored
    /\ debug = NoDebug
    /\ included = <<>>
    /\ repo_score = NotScored

\* main, if let Ok(pr_number) = selected_pr_number: the outcome of
\* retrieve_pr_data is scored, or logged before process::exit(1); a panic of
\* get_score ends the process with 101.
ScorePullRequest ==
    /\ mode = "single"
    /\ exit_code = "running"
    /\ IF outcomes[1].tag = "Ok"
       THEN /\ bundle' = outcomes[1].val
            /\ pr_score' = get_score(outcomes[1].val)
            /\ exit_code' = IF get_score(outcomes[1].val) = Panicked THEN "101" ELSE "0"
       ELSE /\ exit_code' = "1"
            /\ UNCHANGED <<bundle, pr_score>>
    /\ UNCHANGED <<inputs, tracing, resolver, orchestrator, outcomes, include_merge_prs,
                   value, deserialized, debug, included, repo_score>>

\* main, else: the outcomes of retrieve_repo_data are filtered, collected and
\* scored as a repository; a panic of get_score ends the process with 101.
ScoreRepository ==
    /\ mode = "sample"
    /\ exit_code = "running"
    /\ included' = collect(outcomes, include_merge_prs)
    /\ repo_score' = get_repository_score(included')
    /\ debug' = IF \E n \in 1..Len(included') : get_score(included'[n]).tag = "Panic"
                THEN NoDebug
                ELSE [scores |-> collect_scores(included')]
    /\ exit_code' = IF repo_score' = Panicked THEN "101" ELSE "0"
    /\ UNCHANGED <<inputs, tracing, resolver, orchestrator, outcomes, include_merge_prs,
                   value, deserialized, bundle, pr_score>>

NextMain == ScorePullRequest \/ ScoreRepository

SpecMain == InitMain /\ [][NextMain]_vars

\* ------------------------------------------------ #[prolice_trace_time]
\* How the evaluation of a block ends: with the value of its tail expression,
\* at a return statement, or in a panic.
Evaluated(v) == [how |-> "value", v |-> v]
Returning(v) == [how |-> "return", v |-> v]
Unwinding == [how |-> "panic", v |-> 0]

\* str::find(char): the index of the first occurrence, counted from 0, if any.
position(string, c) ==
    IF \E n \in 1..Len(string) : string[n] = c
    THEN [some |-> TRUE, at |-> Min({n \in 1..Len(string) : string[n] = c}) - 1]
    ELSE [some |-> FALSE, at |-> 0]

\* Function bodies of the shapes the attribute is put on: the tail expression
\* string.len() of the tests; a body that leaves through a return statement
\* on some inputs, as the traced fetches do on an empty response; a body that
\* unwraps and so panics on some inputs, as the traced fetches do on a failed
\* request.
Blocks == {"len", "return_found", "unwrap_found"}
evaluate(block, string) ==
    CASE block = "len" -> Evaluated(Len(string))
      [] block = "return_found" ->
            IF position(string, "b").some THEN Returning(position(string, "b").at)
            ELSE Evaluated(Len(string))
      [] block = "unwrap_found" ->
            IF position(string, "b").some THEN Evaluated(position(string, "b").at)
            ELSE Unwinding

\* What the caller of a function observes when the statements placed in its
\* body end as c, having written log lines with trace!.
Returned(v, lines) == [outcome |-> "returned", value |-> v, log |-> lines]
Aborted == [outcome |-> "panicked", value |-> 0, log |-> 0]

\* fn non_traced_function(string: &str) -> usize { block }
non_traced_function(it, string) ==
    LET c == evaluate(it.block, string)
    IN IF c.how = "panic" THEN Aborted ELSE Returned(c.v, 0)

\* Mutant of prolice_trace_time: in debug builds the wrapper ends with the
\* number of lines it traced, not with result.
prolice_trace_time_ending_with_count(it, string) ==
    LET c == evaluate(it.block, string)
    IN IF c.how = "panic" THEN Aborted
       ELSE IF it.release_build THEN Returned(c.v, 0)
       ELSE Returned(1, 1)

\* The function prolice_trace_time writes for the item. Release build: the
\* block as it is. Debug build, async fn: let result = async move { block }
\* .await, where a return inside the block ends the async block with its
\* value; then trace!, then result. Debug build, fn: let result = { block },
\* where a return inside the block leaves the function before trace!.
prolice_trace_time(it, string) ==
    LET c == evaluate(it.block, string)
    IN IF it.release_build
       THEN IF c.how = "panic" THEN Aborted ELSE Returned(c.v, 0)
       ELSE IF it.is_async_fn
       THEN IF c.how = "panic" THEN Aborted ELSE Returned(c.v, 1)
       ELSE CASE c.how = "value" -> Returned(c.v, 1)
              [] c.how = "return" -> Returned(c.v, 0)
              [] c.how = "panic" -> Aborted

Items == [block : Blocks, is_async_fn : BOOLEAN, release_build : BOOLEAN]
Inputs == UNION {[1..n -> {"a", "b"}] : n \in 0..MaxInputLen}

InitTrace ==
    /\ item \in Items
    /\ dummy_input \in Inputs
    /\ traced = NotCalled
    /\ non_traced = NotCalled
    /\ value = <<>>
    /\ deserialized = NotDeserialized
    /\ bundle = NoBundle
    /\ pr_score = NotScored
    /\ debug = NoDebug
    /\ included = <<>>
    /\ repo_score = NotScored
    /\ Unreported
    /\ NotRunning

\* traced_function(dummy_input), awaited with block_on when it is async.
CallTraced ==
    /\ item # NoItem
    /\ traced = NotCalled
    /\ traced' = prolice_trace_time(item, dummy_input)
    /\ UNCHANGED <<inputs, reporting, scoring, resolver, orchestrator, item, dummy_input, non_traced>>

\* non_traced_function(dummy_input), awaited with block_on when it is async.
CallNonTraced ==
    /\ item # NoItem
    /\ non_traced = NotCalled
    /\ non_traced' = non_traced_function(item, dummy_input)
    /\ UNCHANGED <<inputs, reporting, scoring, resolver, orchestrator, item, dummy_input, traced>>

NextTrace == CallTraced \/ CallNonTraced

SpecTrace == InitTrace /\ [][NextTrace]_vars

\* ======================================================================
\* Properties of the retrieval orchestrator
\* ======================================================================
Listed == 1..Len(prs)
Complete(pr) == pr.merged_at = "Some" /\ pr.closed_at = "Some"
Succeeded(i) == {k \in Fetch : subRes[i][k].tag = "Ok"}

\* C1: retrieve_pr_data_from returns a bundle only when all five sub-fetches
\* succeeded, and the bundle then holds all five sub-resources; when a
\* sub-fetch failed, it returns one PullRequestDataRetrievalError carrying the
\* repository name and the PR number; nothing else it returns carries any
\* sub-resource.
AllOrNothingPerPR ==
    \A i \in Task :
        /\ taskResult[i].kind = "Ok" =>
              /\ Succeeded(i) = Fetch
              /\ \A k \in Fetch : taskResult[i].data[k] = subRes[i][k].val
        /\ taskResult[i].kind # "Ok" => taskResult[i].data = NoData
        /\ (taskPc[i] = "returned" /\ Failed(i) # {}) =>
              /\ taskResult[i].kind = "PullRequestDataRetrievalError"
              /\ taskResult[i].repo_name = RepoName
              /\ taskResult[i].pr_number = prs[i].number

\* C1 witness: a PR ended in PullRequestDataRetrievalError although four of its
\* five sub-fetches had succeeded.
FourOfFiveSucceeded ==
    \E i \in Task :
        /\ taskResult[i].kind = "PullRequestDataRetrievalError"
        /\ Cardinality(Succeeded(i)) = 4

\* The outcome a PR's own header, own sub-fetches and own task determine.
OwnSuccess(i) ==
    /\ taskPc[i] = "returned"
    /\ Complete(prs[i])
    /\ Succeeded(i) = Fetch

TaskEndsInFailure(i) ==
    /\ taskPc[i] \notin {"returned", "panicked"}
    /\ \/ taskPc'[i] = "panicked"
       \/ taskPc'[i] = "returned" /\ taskResult'[i].kind # "Ok"

SubFetchFails(i) == firstFailed'[i] # firstFailed[i]

Untouched(j) ==
    /\ taskPc'[j] = taskPc[j]
    /\ subSt'[j] = subSt[j]
    /\ subRes'[j] = subRes[j]
    /\ held'[j] = held[j]
    /\ taskResult'[j] = taskResult[j]

\* C2: in a sample, a PR's failure (a typed failure, a failed sub-fetch, a crash
\* of its task) never unwinds retrieve_repo_data, leaves every other PR's task
\* and sub-fetches as they are, and the outcome returned for each PR is a
\* success exactly when that PR's own retrieval had no failure.
BestEffortAcrossPRs ==
    /\ [](mode = "sample" =>
            /\ panicAt \in {"none", "retrieve_repo_data"}
            /\ mainPc = "panicked" => results = <<>> /\ prs = <<>>
            /\ mainPc = "returned" =>
                  \A i \in Listed :
                      /\ results[i].kind = "Ok" <=> OwnSuccess(i)
                      /\ taskPc[i] = "panicked" <=> results[i].kind = "AsyncTaskError"
                      /\ taskPc[i] = "returned" => results[i] = taskResult[i])
    /\ [][mode = "sample" =>
            \A i \in Task, j \in Task :
                (i # j /\ (TaskEndsInFailure(i) \/ SubFetchFails(i))) => Untouched(j)]_vars

\* C2 witness: a sample returned with a crashed PR task next to a successful PR.
CrashBesideSuccess ==
    /\ mode = "sample"
    /\ mainPc = "returned"
    /\ \E i \in Listed, j \in Listed :
          results[i].kind = "AsyncTaskError" /\ results[j].kind = "Ok"

\* C3: retrieve_repo_data returns one outcome per listed PR (sample_size of them,
\* or as many closed PRs as the repository has), entry i being the outcome of
\* the i-th PR of the listing, whatever order the tasks ended in.
ListingOrderPreserved ==
    (mode = "sample" /\ mainPc = "returned") =>
        /\ Len(results) = MinOf(sample_size, Len(ClosedPRs))
        /\ \A i \in 1..Len(results) :
              /\ results[i].pr_number = ClosedPRs[i].number
              /\ results[i] = taskResult[i]

\* C3 witness: two outcomes returned, the second PR's task having ended first.
SecondFinishedFirst ==
    /\ mode = "sample"
    /\ mainPc = "returned"
    /\ Len(results) = 2
    /\ finishOrder = <<2, 1>>

\* C4: a PR without a merge or a close timestamp never has a sub-fetch spawned
\* nor a connection acquired for one, and what retrieve_pr_data_from returns
\* for it is PullRequestIncompleteDataError.
IncompletePRNeverFetches ==
    \A i \in Listed :
        ~Complete(prs[i]) =>
            /\ \A k \in Fetch : subSt[i][k] = "unspawned" /\ ~held[i][k]
            /\ taskPc[i] \in {"start", "returned"}
            /\ taskPc[i] = "returned" =>
                  /\ taskResult[i].kind = "PullRequestIncompleteDataError"
                  /\ taskResult[i].pr_number = prs[i].number

\* C4 witness: a merged PR without a close timestamp was turned away.
UnclosedPRRejected ==
    \E i \in Listed :
        /\ prs[i].merged_at = "Some"
        /\ prs[i].closed_at = "None"
        /\ taskPc[i] = "returned"
        /\ taskResult[i].kind = "PullRequestIncompleteDataError"

\* C5 (as claimed): the commits sub-fetch never ends in a successful empty list.
EmptyCommitsAlwaysFail ==
    \A i \in Task : ~(subRes[i][5].tag = "Ok" /\ subRes[i][5].val = "empty")

TypedFailures == {"NoCommitsFoundError", "DiffParseError", "GitHubAPIError",
                  "GitHubAPIResponseBodyError", "JsonParseError", "octocrab::Error"}

\* C6 (as claimed): the cause nested in a PullRequestDataRetrievalError is the
\* typed failure of the sub-fetch that failed first.
NestsFirstTypedFailure ==
    \A i \in Task :
        taskResult[i].kind = "PullRequestDataRetrievalError" =>
            /\ taskResult[i].nested.tag \in TypedFailures
            /\ taskResult[i].nested.of = firstFailed[i]

\* C7 (as claimed): a validated PR with sub-fetches still to launch can launch
\* the next one without any running sub-fetch having to complete first.
LaunchNeverWaits ==
    \A i \in Task : taskPc[i] = "launch" => available > 0

\* C7 (amended): past validation exactly five sub-fetches are launched before
\* the join, each running one holding a connection of its own, and the next
\* launch waits for a free connection only, never for an earlier sub-fetch.
FiveConcurrentLeasedFetches ==
    /\ LeasesOut + available = PoolSize
    /\ \A i \in Task :
          /\ (taskPc[i] = "join" \/ taskResult[i].kind \in {"Ok", "PullRequestDataRetrievalError"})
                => Launched(i) = NumFetches
          /\ \A k \in Fetch : held[i][k] <=> subSt[i][k] = "running"
          /\ (taskPc[i] = "launch" /\ available > 0) => ENABLED Launch(i)

\* C7 witness: the five sub-fetches of one PR in flight at once.
FiveInFlight ==
    \E i \in Task : \A k \in Fetch : subSt[i][k] = "running" /\ held[i][k]

\* C8: the step that ends a PR's retrieve_pr_data_from leaves its sub-fetch
\* tasks and their connections as they are; a running sub-fetch stops only by
\* finishing, which returns its connection to the pool, its output being
\* discarded once retrieve_pr_data_from has returned.
FailureCancelsNothing ==
    [][\A i \in Task :
          /\ (taskPc[i] # "returned" /\ taskPc'[i] = "returned") =>
                subSt'[i] = subSt[i] /\ held'[i] = held[i]
          /\ \A k \in Fetch :
                (subSt[i][k] = "running" /\ subSt'[i][k] # "running") =>
                    /\ subSt'[i][k] = "finished"
                    /\ ~held'[i][k]
                    /\ available' = available + 1
                    /\ taskPc[i] = "returned" => subRes'[i][k] = Discarded]_vars

\* C8 witness: after a PR ended in PullRequestDataRetrievalError, another of its
\* sub-fetches ran to its end and its output was discarded.
SiblingFinishedAfterFailure ==
    \E i \in Task, k \in Fetch :
        /\ taskResult[i].kind = "PullRequestDataRetrievalError"
        /\ subSt[i][k] = "finished"
        /\ subRes[i][k] = Discarded
        /\ ~held[i][k]

\* C9 (as claimed): a failed connection acquisition inside retrieve_pr_data_from
\* never unwinds the main task.
AcquireFailureIsRecoverable ==
    panicAt # "retrieve_pr_data_from"

\* ======================================================================
\* Properties of the repository resolver
\* ======================================================================
Folded(name) ==
    [n \in 1..Len(name) |->
        IF name[n] = "A" THEN "a" ELSE IF name[n] = "B" THEN "b" ELSE name[n]]

OrgMatches ==
    {n \in 1..Len(orgResponse.items) : Folded(orgResponse.items[n]) = Folded(repository_name)}

UserMatches ==
    {n \in 1..Len(userResponse.items) : userResponse.items[n] = repository_name}

RepositoryNotFound == Unresolved("RepositoryNotFoundError")

STATES ==
    <<[text |-> <<"a", "p", "p", "r", "o", "v", "e", "d">>, state |-> "Approved"],
      [text |-> <<"p", "e", "n", "d", "i", "n", "g">>, state |-> "Pending"],
      [text |-> <<"c", "h", "a", "n", "g", "e", "s", "_", "r", "e", "q", "u", "e", "s", "t", "e", "d">>,
       state |-> "ChangesRequested"],
      [text |-> <<"c", "o", "m", "m", "e", "n", "t", "e", "d">>, state |-> "Commented"],
      [text |-> <<"d", "i", "s", "m", "i", "s", "s", "e", "d">>, state |-> "Dismissed"]>>

Lowered(v) == [n \in 1..Len(v) |-> to_ascii_lowercase(v[n])]
Uppered(v) == [n \in 1..Len(v) |-> to_ascii_uppercase(v[n])]

\* C11 as claimed: a text is accepted when it equals the lower-case spelling of
\* one of the five states in any casing, or its upper-case spelling exactly; it
\* then deserializes to that state; every other text fails to deserialize.
ReviewStateAnyCasing ==
    deserialized # NotDeserialized =>
        LET hits == {n \in 1..5 : Lowered(value) = STATES[n].text}
        IN IF hits # {}
           THEN \A n \in hits : deserialized = Ok(STATES[n].state)
           ELSE deserialized.tag = "Err"

\* C11, amended: a text is accepted exactly when it is the lower-case or the
\* upper-case spelling of one of the five states, and deserializes to that
\* state; every other text, a mixed-case spelling included, fails.
ReviewStateTwoSpellings ==
    deserialized # NotDeserialized =>
        LET hits == {n \in 1..5 : value = STATES[n].text \/ value = Uppered(STATES[n].text)}
        IN IF hits # {}
           THEN \A n \in hits : deserialized = Ok(STATES[n].state)
           ELSE deserialized.tag = "Err"

\* C11 witness: "Dismissed", capitalised, was handed in and refused, where
\* "DISMISSED" and "dismissed" are accepted.
CapitalisedStateRefused ==
    /\ value = <<"D", "i", "s", "m", "i", "s", "s", "e", "d">>
    /\ deserialized.tag = "Err"

\* The value a score holds for a metric kind.
Entry(score, kind) == score[CHOOSE n \in 1..Len(score) : score[n].kind = kind].value
Kinds(score) == [n \in 1..Len(score) |-> score[n].kind]

\* max(added - removed, 0)
NetOf(hunk) == IF hunk.added >= hunk.removed THEN hunk.added - hunk.removed ELSE 0

\* The hunks of the diff's files that satisfy P.
HunksOf(ps, P(_)) ==
    {<<i, j>> \in (1..Len(ps)) \X (1..MaxHunks + 1) : j <= Len(ps[i].hunks) /\ P(ps[i])}

RECURSIVE NetOver(_, _)
NetOver(ps, H) ==
    IF H = {} THEN 0
    ELSE LET h == CHOOSE x \in H : TRUE
         IN NetOf(ps[h[1]].hunks[h[2]]) + NetOver(ps, H \ {h})

\* C12: for every hunk of a scored bundle, the net added lines are
\* max(added - removed, 0), never negative; so are the sums get_score reports.
NetAddedLinesFloored ==
    pr_score # NotScored =>
        /\ \A h \in HunksOf(bundle.patch_set, LAMBDA f : TRUE) :
              LET hunk == bundle.patch_set[h[1]].hunks[h[2]]
              IN /\ count_net_added_lines_for_hunk(hunk) = NetOf(hunk)
                 /\ count_net_added_lines_for_hunk(hunk) >= 0
        /\ debug.net_test_lines_added >= 0
        /\ debug.net_non_test_lines_added >= 0

\* C12 witness: a bundle whose only hunk removes more than it adds was scored
\* and counted no net line.
ShrinkingHunkCountsZero ==
    /\ pr_score.tag = "Ok"
    /\ Len(bundle.patch_set) = 1
    /\ bundle.patch_set[1].kind = "modified"
    /\ bundle.patch_set[1].hunks = <<[added |-> 0, removed |-> 1]>>
    /\ debug.net_test_lines_added + debug.net_non_test_lines_added = 0

Scored == 1..Len(included)
PerPR(n, kind) == Entry(get_score(included[n]).score, kind)
CreatedOn(d) == Cardinality({n \in Scored : included[n].created_at \div TicksPerDay = d})
ClosedOn(d) == Cardinality({n \in Scored : included[n].closed_at \div TicksPerDay = d})
Days == 0..(MaxTick \div TicksPerDay)
CommonDays == {d \in Days : CreatedOn(d) > 0 /\ ClosedOn(d) > 0}

\* The sum of C(d)/K(d) over the days of D, as the pair of a numerator and a
\* denominator.
RECURSIVE RatioSum(_)
RatioSum(D) ==
    IF D = {} THEN <<0, 1>>
    ELSE LET d == CHOOSE x \in D : TRUE
             r == RatioSum(D \ {d})
         IN <<CreatedOn(d) * r[2] + r[1] * ClosedOn(d), ClosedOn(d) * r[2]>>

\* C14: when some day has both a created and a closed PR, the flow ratio of
\* the repository score is the mean of C(d)/K(d) over exactly the days that
\* occur in both maps; the other days add nothing to the sum or the divisor.
FlowRatioOverCommonDays ==
    (repo_score.tag = "Ok" /\ CommonDays # {}) =>
        LET flow == Entry(repo_score.score, "PullRequestFlowRatio")
            total_ratio == RatioSum(CommonDays)
        IN /\ flow.den > 0
           /\ flow.num * total_ratio[2] * Cardinality(CommonDays) = total_ratio[1] * flow.den

\* C14 witness: two PRs were created on day 0, one closed that day and one the
\* day after, and the flow ratio is 2: day 1, which only has a closure, is left out.
ClosureOnlyDayLeftOut ==
    /\ repo_score.tag = "Ok"
    /\ CreatedOn(0) = 2 /\ ClosedOn(0) = 1
    /\ CreatedOn(1) = 0 /\ ClosedOn(1) = 1
    /\ Entry(repo_score.score, "PullRequestFlowRatio") = F(2, 1)

\* C15: the aggregation returns a repository score for every set of included
\* PRs, the empty one too; it never aborts.
AggregationNeverAborts ==
    repo_score # NotScored => repo_score.tag = "Ok"

\* The kinds of the enumeration other than the flow ratio, in its order.
PerPRKinds == SelectSeq(ScoreTypes, LAMBDA kind : kind # "PullRequestFlowRatio")
KindSet == {ScoreTypes[n] : n \in 1..Len(ScoreTypes)}

\* C16: the score of every PR holds each metric kind but the flow ratio
\* exactly once, in enumeration order, and no entry for the flow ratio; the
\* repository score holds every kind, the flow ratio too, exactly once.
EveryKindOnce ==
    repo_score.tag = "Ok" =>
        /\ Len(debug.scores) = Len(PerPRKinds) * Len(included)
        /\ \A n \in Scored :
              LET own == SubSeq(debug.scores, Len(PerPRKinds) * (n - 1) + 1, Len(PerPRKinds) * n)
              IN /\ Kinds(own) = PerPRKinds
                 /\ \A kind \in KindSet :
                       Cardinality({m \in 1..Len(own) : own[m].kind = kind})
                           = (IF kind = "PullRequestFlowRatio" THEN 0 ELSE 1)
        /\ Kinds(repo_score.score) = ScoreTypes
        /\ \A kind \in KindSet :
              Cardinality({m \in 1..Len(repo_score.score) : repo_score.score[m].kind = kind}) = 1

\* C16 witness: two PRs were scored and aggregated.
TwoScoredAndAggregated ==
    /\ Len(included) = 2
    /\ repo_score.tag = "Ok"
    /\ Len(debug.scores) = 18
    /\ Len(repo_score.score) = 10

IntegerKinds == {"AmountOfParticipants", "AmountOfReviewers", "Attachments",
                 "PullRequestsDiscussionSize", "PullRequestLeadTime", "PullRequestSize",
                 "TimeToMerge"}
RatioKinds == {"AuthorCommentaryToChangesRatio", "TestToCodeRatio"}

RECURSIVE IntSum(_, _)
IntSum(kind, N) ==
    IF N = {} THEN 0
    ELSE LET n == CHOOSE x \in N : TRUE IN PerPR(n, kind) + IntSum(kind, N \ {n})

\* The sum of the finite per-PR ratios of N, as a numerator and a denominator.
RECURSIVE FracSum(_, _)
FracSum(kind, N) ==
    IF N = {} THEN <<0, 1>>
    ELSE LET n == CHOOSE x \in N : TRUE
             r == FracSum(kind, N \ {n})
             v == PerPR(n, kind)
         IN <<v.num * r[2] + r[1] * v.den, v.den * r[2]>>

\* C17: over the n included PRs, the repository value of every integer-valued
\* kind is the least integer not below sum / n, and that of every ratio-valued
\* kind is sum / n itself (not finite when a PR's ratio is not).
MeansRoundedUp ==
    repo_score.tag = "Ok" =>
        LET n == Len(included)
        IN /\ \A kind \in IntegerKinds :
                 LET m == Entry(repo_score.score, kind)
                 IN /\ m * n >= IntSum(kind, Scored)
                    /\ (m - 1) * n < IntSum(kind, Scored)
           /\ \A kind \in RatioKinds :
                 LET v == Entry(repo_score.score, kind)
                     total_ratio == FracSum(kind, Scored)
                 IN IF \E k \in Scored : PerPR(k, kind).den = 0
                    THEN v.den = 0
                    ELSE /\ v.den > 0
                         /\ v.num * total_ratio[2] * n = total_ratio[1] * v.den

\* C17 witness: of two PRs one has a participant and one has none, and the
\* repository has 1; their test-to-code ratios 1/2 and 0 give 1/4.
HalfRoundedUpToOne ==
    /\ repo_score.tag = "Ok"
    /\ Len(included) = 2
    /\ PerPR(1, "AmountOfParticipants") = 1
    /\ PerPR(2, "AmountOfParticipants") = 0
    /\ Entry(repo_score.score, "AmountOfParticipants") = 1
    /\ PerPR(1, "TestToCodeRatio") = F(1, 2)
    /\ PerPR(2, "TestToCodeRatio") = F(0, 1)
    /\ Entry(repo_score.score, "TestToCodeRatio") = F(1, 4)

\* ------------------------------------------------------- the per-PR score
RECURSIVE Earliest(_)
Earliest(cs) ==
    IF Len(cs) = 1 THEN cs[1]
    ELSE LET e == Earliest(Tail(cs)) IN IF cs[1] <= e THEN cs[1] ELSE e

\* C18: the time to merge of a scored bundle whose commits were all authored
\* before the merge is the number of whole days from the earliest author
\* timestamp among its commits to the merge, in whatever order the commits
\* were listed.
TimeToMergeFromEarliestCommit ==
    (pr_score.tag = "Ok" /\ \A n \in 1..Len(bundle.commits) : bundle.commits[n] <= bundle.merged_at) =>
        Entry(pr_score.score, "TimeToMerge")
            = (bundle.merged_at - Earliest(bundle.commits)) \div TicksPerDay

LoginsOf(cs) == {cs[n].login : n \in 1..Len(cs)}

\* C19: the participants of a scored bundle are the distinct logins of its
\* issue comments, reviews and commit comments other than the PR author, the
\* reviewers the distinct logins of its reviews other than the PR author; no
\* login is listed twice, and the two counts of the score are their numbers.
ParticipantsAreDistinctOthers ==
    pr_score.tag = "Ok" =>
        LET participants == debug.non_authoring_participants
            reviewers == debug.non_authoring_reviewers
            everyone == LoginsOf(bundle.comments) \cup LoginsOf(bundle.reviews)
                            \cup LoginsOf(bundle.commit_comments)
        IN /\ {participants[n] : n \in 1..Len(participants)} = everyone \ {bundle.pr_author}
           /\ Len(participants) = Cardinality(everyone \ {bundle.pr_author})
           /\ Entry(pr_score.score, "AmountOfParticipants") = Len(participants)
           /\ {reviewers[n] : n \in 1..Len(reviewers)} = LoginsOf(bundle.reviews) \ {bundle.pr_author}
           /\ Len(reviewers) = Cardinality(LoginsOf(bundle.reviews) \ {bundle.pr_author})
           /\ Entry(pr_score.score, "AmountOfReviewers") = Len(reviewers)

\* C19 witness: the author commented, and ann commented twice, reviewed and
\* commented on a commit; the scored bundle has one participant and one reviewer.
AuthorAndRepeatedCommenter ==
    /\ pr_score.tag = "Ok"
    /\ LoginsOf(bundle.comments) = {"author", "ann"}
    /\ LoginsOf(bundle.reviews) = {"ann"} /\ Len(bundle.reviews) = 2
    /\ LoginsOf(bundle.commit_comments) = {"ann", "author"}
    /\ Entry(pr_score.score, "AmountOfParticipants") = 1
    /\ Entry(pr_score.score, "AmountOfReviewers") = 1

\* "test" occurs in the path, in any casing.
NamesATest(path) ==
    \E n \in 1..(Len(path) - 3) :
        /\ Lowered(path)[n] = "t" /\ Lowered(path)[n + 1] = "e"
        /\ Lowered(path)[n + 2] = "s" /\ Lowered(path)[n + 3] = "t"
Kept(f) == f.kind \in {"added", "modified"}

\* C20: the net test lines of a scored bundle are the sum of the per-hunk net
\* added lines over its added or modified files whose path contains "test" in
\* any casing, the net non-test lines the same sum over its other added or
\* modified files: every hunk of such a file is in exactly one of the two
\* sums, and the hunks of deleted files are in neither.
TestAndCodeLinesPartitionHunks ==
    pr_score # NotScored =>
        LET ps == bundle.patch_set
        IN /\ debug.net_test_lines_added
                 = NetOver(ps, HunksOf(ps, LAMBDA f : Kept(f) /\ NamesATest(f.target_file)))
           /\ debug.net_non_test_lines_added
                 = NetOver(ps, HunksOf(ps, LAMBDA f : Kept(f) /\ ~NamesATest(f.target_file)))
           /\ debug.net_test_lines_added + debug.net_non_test_lines_added
                 = NetOver(ps, HunksOf(ps, Kept))

\* C20 witness: an added file whose path spells "TeSt" and a deleted test
\* file, each with a hunk that adds a line: one net test line, no other.
DeletedTestFileNotCounted ==
    /\ pr_score.tag = "Ok"
    /\ Len(bundle.patch_set) = 2
    /\ bundle.patch_set[1].kind = "added"
    /\ bundle.patch_set[1].target_file = <<"a", "T", "e", "S", "t">>
    /\ bundle.patch_set[1].hunks = <<[added |-> 1, removed |-> 0]>>
    /\ bundle.patch_set[2].kind = "removed"
    /\ bundle.patch_set[2].target_file = <<"t", "e", "s", "t">>
    /\ bundle.patch_set[2].hunks = <<[added |-> 1, removed |-> 0]>>
    /\ debug.net_test_lines_added = 1
    /\ debug.net_non_test_lines_added = 0

\* C21: retrieve_pr_data ends in PullRequestNotFound with the repository name
\* and the requested PR number when the header fetch fails, and then
\* retrieve_pr_data_from was never entered and no sub-fetch was started;
\* otherwise its outcome is the one retrieve_pr_data_from returned for the
\* fetched header.
RetrieveOneOutcome ==
    (mode = "single" /\ mainPc = "returned") =>
        IF prs = <<>>
        THEN /\ results = <<PullRequestNotFound(RepoName, pr_number)>>
             /\ taskPc[1] = "unspawned"
             /\ \A k \in Fetch : subSt[1][k] = "unspawned" /\ ~held[1][k]
        ELSE /\ prs[1].number = pr_number
             /\ taskPc[1] = "returned"
             /\ results = <<taskResult[1]>>

\* C21 witness: the header of a PR that the repository does hold could not be
\* fetched; the run returned PullRequestNotFound and launched nothing.
HeaderFetchFailed ==
    /\ mode = "single"
    /\ mainPc = "returned"
    /\ prs = <<>>
    /\ \E pos \in 1..Len(repoPRs) : repoPRs[pos].number = pr_number
    /\ results[1].kind = "PullRequestNotFound"
    /\ results[1].pr_number = pr_number
    /\ Launched(1) = 0

\* C24 (as claimed): every bundle that a retrieval run returns has at least one
\* commit, and scoring it never panics in get_first_commit_date.
ReturnedBundlesHaveCommits ==
    \A n \in 1..Len(results) :
        results[n].kind = "Ok" =>
            /\ bundle_of(results[n]).commits # <<>>
            /\ get_score(bundle_of(results[n])) # Panicked

\* C25: the connections handed out never exceed the pool's max_size; every one
\* of them is held by exactly one holder (the entry operation or one running
\* sub-fetch), so permits and holders always add up to max_size; and once the
\* run has returned and no sub-fetch is running, every connection is back.
LeaseDiscipline ==
    /\ available \in 0..PoolSize
    /\ LeasesOut <= PoolSize
    /\ available + LeasesOut = PoolSize
    /\ \A i \in Task : \A k \in Fetch : held[i][k] => subSt[i][k] = "running"
    /\ mainLease <=> mainPc \in {"list", "header", "inline", "join_all"}
    /\ (/\ mainPc = "returned"
        /\ \A i \in Task : \A k \in Fetch : subSt[i][k] # "running")
          => available = PoolSize

\* C25 witness: a sample of two PRs returned after all ten sub-fetches, more
\* than the pool holds connections, had run; every connection is back.
AllLeasesReturned ==
    /\ mode = "sample"
    /\ mainPc = "returned"
    /\ \A i \in 1..2 : Launched(i) = NumFetches
    /\ \A i \in Task : \A k \in Fetch : subSt[i][k] # "running"
    /\ NumFetches * 2 > PoolSize
    /\ available = PoolSize

\* The run is over: it returned one outcome per PR (one for the requested PR
\* when its header could not be fetched), or the listing call itself came back
\* with an error and retrieve_repo_data panicked before any PR was known; and
\* every PR that passed validation had its five sub-fetches spawned.
RunOver ==
    /\ mainPc \in {"returned", "panicked"}
    /\ mainPc = "panicked" => prs = <<>>
    /\ mainPc = "returned" =>
          Len(results) = IF mode = "single" THEN 1 ELSE Len(prs)
    /\ \A i \in Listed : Complete(prs[i]) => Launched(i) = NumFetches

\* C26: while the entry operation keeps its connection and every task takes
\* its five connections one after another from a pool of at least two, every
\* run in which each enabled step is eventually taken is eventually over: no
\* task waits for a connection for ever.
NoLeaseDeadlock == <>RunOver

\* C26 witness: the pool is empty while a task still has sub-fetches to spawn.
PoolExhaustedWhileLaunching ==
    /\ PoolSize >= 2
    /\ available = 0
    /\ mainLease
    /\ \E i \in Listed : taskPc[i] = "launch" /\ Launched(i) < NumFetches

\* C27 (as claimed): when no day has both a created and a closed PR among the
\* included PRs, the flow ratio of the repository score is still a finite
\* number: the sum is never divided by a zero count of matching days.
FlowRatioAlwaysFinite ==
    (repo_score.tag = "Ok" /\ CommonDays = {}) =>
        Entry(repo_score.score, "PullRequestFlowRatio").den > 0

\* Whole days between two timestamps, whichever comes first.
WholeDaysBetween(a, b) == (IF a <= b THEN b - a ELSE a - b) \div TicksPerDay

\* C28 (as claimed): the lead time never exceeds the whole days between creation
\* and close, nor the time to merge those between the first commit's author
\* date and the merge, also when the later timestamp comes first.
DayCountsWithinSpan ==
    pr_score.tag = "Ok" =>
        /\ Entry(pr_score.score, "PullRequestLeadTime")
              <= WholeDaysBetween(bundle.created_at, bundle.closed_at)
        /\ Entry(pr_score.score, "TimeToMerge")
              <= WholeDaysBetween(bundle.commits[1], bundle.merged_at)

\* s can be had from t by leaving elements out.
RECURSIVE IsSubCollection(_, _)
IsSubCollection(s, t) ==
    IF s = <<>> THEN TRUE
    ELSE IF t = <<>> THEN FALSE
    ELSE IF s[1] = t[1] THEN IsSubCollection(Tail(s), Tail(t))
    ELSE IsSubCollection(s, Tail(t))

Range(s) == {s[n] : n \in 1..Len(s)}

\* C30: for every scored bundle the reviewers are among the participants and
\* no more numerous; the author's commentary starts with the PR body and is
\* what is left of all commentary when texts are left out; its size is at most
\* the discussion size, and both sizes are at least the length of the PR body.
CommentaryContainment ==
    pr_score.tag = "Ok" =>
        /\ Range(debug.non_authoring_reviewers) \subseteq Range(debug.non_authoring_participants)
        /\ Entry(pr_score.score, "AmountOfReviewers")
              <= Entry(pr_score.score, "AmountOfParticipants")
        /\ Len(debug.author_commentary) >= 1
        /\ debug.author_commentary[1] = bundle.main_message
        /\ debug.all_commentary[1] = bundle.main_message
        /\ IsSubCollection(debug.author_commentary, debug.all_commentary)
        /\ debug.author_comments <= debug.all_comments
        /\ debug.all_comments = Entry(pr_score.score, "PullRequestsDiscussionSize")
        /\ debug.author_comments >= bundle.main_message.len
        /\ debug.all_comments >= bundle.main_message.len

\* C30 witness: the author and another user each wrote an issue comment, the
\* other user also a review without a body; the author's commentary is the PR
\* body and the author's comment, three bytes of a discussion of five.
AuthorTextsAmongAllTexts ==
    /\ pr_score.tag = "Ok"
    /\ bundle.main_message = Text(1, 0)
    /\ bundle.comments = <<[login |-> "ann", body |-> Text(2, 1)],
                           [login |-> "author", body |-> Text(2, 1)]>>
    /\ bundle.reviews = <<[login |-> "ann", body |-> None]>>
    /\ bundle.commit_comments = <<>>
    /\ debug.author_commentary = <<Text(1, 0), Text(2, 1)>>
    /\ debug.all_commentary = <<Text(1, 0), Text(2, 1), Text(2, 1)>>
    /\ debug.author_comments = 3
    /\ debug.all_comments = 5
    /\ debug.non_authoring_reviewers = <<"ann">>

\* C23: on every input the function carrying the prolice_trace_time attribute
\* ends as the function without it does, with the same value when it returns,
\* whether it is a fn or an async fn and in debug and release builds alike.
TracingKeepsResult ==
    (traced # NotCalled /\ non_traced # NotCalled) =>
        /\ traced.outcome = non_traced.outcome
        /\ traced.value = non_traced.value

\* C23 witness: a debug build wrapped an async fn whose body left through a
\* return statement; the time was traced and both functions returned 1.
TracedAsyncEarlyReturn ==
    /\ item = [block |-> "return_found", is_async_fn |-> TRUE, release_build |-> FALSE]
    /\ dummy_input = <<"a", "b", "a">>
    /\ traced = Returned(1, 1)
    /\ non_traced = Returned(1, 0)

\* ======================================================================
\* Properties of main
\* ======================================================================
\* A title whose first five characters spell "merge" in some casing.
TitledMerge(title) ==
    /\ Len(title) >= 5
    /\ \A n \in 1..5 : title[n] \in {<<"m", "e", "r", "g", "e">>[n], <<"M", "E", "R", "G", "E">>[n]}

\* The outcomes that are bundles, and those of them that the merge filter lets through.
Successes == {n \in 1..Len(outcomes) : outcomes[n].tag = "Ok"}
Passing == {n \in Successes : include_merge_prs \/ ~TitledMerge(outcomes[n].val.pr_title)}

\* The value the bundle of outcome n scores for a kind, and its sum over N.
OutcomeValue(n, kind) == Entry(get_score(outcomes[n].val).score, kind)
RECURSIVE OutcomeSum(_, _)
OutcomeSum(kind, N) ==
    IF N = {} THEN 0
    ELSE LET n == CHOOSE x \in N : TRUE IN OutcomeValue(n, kind) + OutcomeSum(kind, N \ {n})

\* C22: when main has scored a repository, every bundle it included is the
\* bundle of a successful outcome; the divisor of the means is the number of
\* successful outcomes that passed the filter, the sums of the integer kinds
\* run over exactly those, and so do the per-day counts of created and closed
\* pull requests; a failed outcome is in none of them.
FailuresCountForNothing ==
    (mode = "sample" /\ exit_code # "running") =>
        /\ \A m \in 1..Len(included) : \E n \in Successes : included[m] = outcomes[n].val
        /\ Len(included) = Cardinality(Passing)
        /\ repo_score.tag = "Ok" =>
              /\ Len(debug.scores) = Len(PerPRKinds) * Cardinality(Passing)
              /\ \A kind \in IntegerKinds :
                    LET m == Entry(repo_score.score, kind)
                        n == Cardinality(Passing)
                    IN /\ m * n >= OutcomeSum(kind, Passing)
                       /\ (m - 1) * n < OutcomeSum(kind, Passing)
              /\ \A d \in 0..(MaxTick \div TicksPerDay) :
                    /\ CreatedOn(d) = Cardinality({n \in Passing : date(outcomes[n].val.created_at) = d})
                    /\ ClosedOn(d) = Cardinality({n \in Passing : date(outcomes[n].val.closed_at) = d})

\* C22 witness: of two outcomes the first is a failure and the second a bundle
\* with a commenter; the repository score is that of the one bundle.
FailureBesideBundle ==
    /\ mode = "sample"
    /\ exit_code = "0"
    /\ Len(outcomes) = 2
    /\ outcomes[1].tag = "Err"
    /\ outcomes[2].tag = "Ok"
    /\ Len(outcomes[2].val.comments) = 1
    /\ included = <<outcomes[2].val>>
    /\ Entry(repo_score.score, "AmountOfParticipants") = 1

\* C29: in repository mode main includes a retrieved bundle exactly when the
\* flag is set or its title does not start with "merge" in some casing, and
\* the aggregator scores every bundle it is given, merge PRs too; in single-PR
\* mode a retrieved bundle is scored whatever its title and the flag.
MergeFilterInMainOnly ==
    exit_code # "running" =>
        IF mode = "sample"
        THEN /\ \A n \in Successes :
                    (\E m \in 1..Len(included) : included[m] = outcomes[n].val)
                        <=> (include_merge_prs \/ ~TitledMerge(outcomes[n].val.pr_title))
             /\ Len(included) = Cardinality(Passing)
             /\ Len(included) > 0 =>
                    /\ repo_score.tag = "Ok"
                    /\ Len(debug.scores) = Len(PerPRKinds) * Len(included)
        ELSE outcomes[1].tag = "Ok" =>
                /\ bundle = outcomes[1].val
                /\ pr_score.tag = "Ok"
                /\ Len(pr_score.score) = Len(PerPRKinds)

\* C29 witness: without the flag, of the bundles titled "mERGE" and "fix" only
\* the second reached the repository score.
MergePRLeftOut ==
    /\ mode = "sample"
    /\ ~include_merge_prs
    /\ exit_code = "0"
    /\ Len(outcomes) = 2
    /\ outcomes[1].tag = "Ok" /\ outcomes[1].val.pr_title = <<"m", "E", "R", "G", "E">>
    /\ outcomes[2].tag = "Ok" /\ outcomes[2].val.pr_title = <<"f", "i", "x">>
    /\ included = <<outcomes[2].val>>
    /\ Len(debug.scores) = Len(PerPRKinds)

====
